---- MODULE Spec2Model ----
(***************************************************************************)
(* State-machine model of the lattice automata of pixel_art:               *)
(*   sandpiles.rs        SandPiles  (threshold toppling, double buffered)  *)
(*   elementary.rs       Rule110    (one row per step, double buffered)    *)
(*   single_rotation.rs  MarGrid    (Margolus blocks, in place, reversible)*)
(*   multicolor.rs       MarGrid    (Margolus blocks, Critters rule)       *)
(* A Vec<T> of length n is a function over 0..n-1.  Every struct is one    *)
(* record-valued variable whose fields carry the names of the Rust fields. *)
(* A failed index or unwrap is a panic: the process ends, so `panicked`    *)
(* becomes TRUE and no operation runs afterwards.                          *)
(***************************************************************************)
EXTENDS Integers, Sequences, FiniteSets, TLC

\* Bounds of the model (not program constants).
\* A lattice has sides of at most MaxSide cells; one of the sandpile,
\* elementary and single-rotation machines has at most MaxCells cells, one
\* of the Critters machine at most MaxCritCells.
MaxSide == 4
MaxCells == 9
MaxCritCells == 16
\* update() calls in one behaviour: of the sandpile, whose cells take four
\* updates beside a tall pile to reach the toppling height, and of the others.
MaxSandSteps == 6
MaxSteps == 4
\* Edit calls in one behaviour, per machine.
MaxSandEdits == 1
MaxElemEdits == 2
MaxRotEdits == 4
MaxCritEdits == 2
\* The machine that runs every operation of the sandpile or of the
\* elementary automaton: cells of a lattice, update() calls and edit calls
\* in one behaviour.
MaxBufCells == 4
MaxBufSteps == 2
MaxBufEdits == 1
\* The machine of the edit commands: sides and cells of a lattice, point
\* edits (toggle, set_pile) and other edits in one behaviour.
MaxEditSide == 2
MaxEditCells == 4
MaxPointEdits == 1
MaxBulkEdits == 1
\* The totalistic machine: toggle and update() calls in one behaviour.
MaxTotEdits == 2
MaxTotSteps == 2

\* The rule-code machine: cells of a lattice, toggle and update() calls in
\* one behaviour.
MaxRuleCells == 4
MaxRuleEdits == 2
MaxRuleSteps == 1

\* The machine of all the operations of single rotation: sides and cells
\* of a lattice, update() calls and other calls in one behaviour.
MaxFlagSide == 2
MaxFlagCells == 4
MaxFlagSteps == 2
MaxFlagEdits == 2

\* Program constants.
TOPPLE_HEIGHT == 4
CLICK_HEIGHT == 256
SCREEN_WIDTH == 360
SCREEN_HEIGHT == 240
CENTER_HEIGHT == 98304
\* RANDOM_FILL: f32 = 0.07, in hundredths; a uniform draw of [0, 1) is kept
\* as its hundredths 0..99, which compare with 7 as the draw does with 0.07.
RANDOM_FILL == 7

VARIABLES
    sand,       \* sandpiles.rs SandPiles {piles, width, height, scratch_piles}
    elem,       \* elementary.rs Rule110 {cells, width, height, scratch_cells, active_line}
    rot,        \* single_rotation.rs MarGrid {cells, width, height, reverse, phase}
    crit,       \* multicolor.rs MarGrid {cells, scratch_cells, width, height}
    hist,       \* history: the last operation and the state it started from
    panicked,   \* TRUE once an operation has panicked
    steps,      \* number of update() calls so far
    edits       \* number of edit calls so far

vars == <<sand, elem, rot, crit, hist, panicked, steps, edits>>

\* The (width, height) pairs new_empty is called with.
Dims(cells) == {d \in (1..MaxSide) \X (1..MaxSide) : d[1] * d[2] <= cells}
\* isize coordinates handed to the edit operations of a lattice: one step
\* outside it on every side.
XCoords(self) == -1..self.width
YCoords(self) == -1..self.height

\* vec![v; size]
Vec(size, v) == [i \in 0..(size - 1) |-> v]

(***************************************************************************)
(* grid_idx: TryInto<usize> fails for a negative coordinate; the result    *)
(* is Some(x + y*width) inside the lattice and None (here -1) outside.     *)
(***************************************************************************)
None == -1

\* Mutant of grid_idx: the row stride is the height.
grid_idx_height_stride(self, x, y) ==
    IF x >= 0 /\ y >= 0
    THEN IF x < self.width /\ y < self.height
         THEN x + y * self.height
         ELSE None
    ELSE None

grid_idx(self, x, y) ==
    IF x >= 0 /\ y >= 0
    THEN IF x < self.width /\ y < self.height
         THEN x + y * self.width
         ELSE None
    ELSE None

\* idx_grid: Some((pos % width, pos / width)).
idx_grid(self, n) == <<n % self.width, n \div self.width>>

(***************************************************************************)
(* set_line: the start is clamped to 0..=width and 0..=height, then the    *)
(* points of line_drawing::Bresenham from the start to (x1, y1) are taken   *)
(* in order and written until one is outside the lattice.  The crate is    *)
(* not part of the sources: a line is any path from the start to the end   *)
(* whose steps move one cell towards the end along x, along y or along     *)
(* both.  LineWrites is the set of the index sets such a line can write.   *)
(***************************************************************************)
Clamp(v, size) == IF v < 0 THEN 0 ELSE IF v > size THEN size ELSE v

Sgn(n) == IF n > 0 THEN 1 ELSE IF n < 0 THEN -1 ELSE 0

RECURSIVE LineWrites(_, _, _, _, _)
LineWrites(self, x, y, x1, y1) ==
    LET i == grid_idx(self, x, y)
    IN IF i = None THEN {{}}
       ELSE IF x = x1 /\ y = y1 THEN {{i}}
       ELSE UNION {{{i} \cup w : w \in LineWrites(self, x + d[1], y + d[2], x1, y1)} :
                      d \in {e \in {0, Sgn(x1 - x)} \X {0, Sgn(y1 - y)} : e # <<0, 0>>}}

set_line_writes(self, x0, y0, x1, y1) ==
    LineWrites(self, Clamp(x0, self.width), Clamp(y0, self.height), x1, y1)

\* The steps a Bresenham line can take from (x, y) towards (x1, y1): one
\* cell along the axis with the longer way to go, and none or one along the
\* other, so that a line has max(|dx|, |dy|) + 1 points.
Abs(n) == IF n < 0 THEN -n ELSE n

BresenhamSteps(x, y, x1, y1) ==
    {d \in {0, Sgn(x1 - x)} \X {0, Sgn(y1 - y)} :
        /\ Abs(x1 - x) >= Abs(y1 - y) => d[1] # 0
        /\ Abs(y1 - y) >= Abs(x1 - x) => d[2] # 0}

\* Mutant of Bresenham: the end point is not yielded.
RECURSIVE Bresenham_end_excluded(_, _, _, _)
Bresenham_end_excluded(x, y, x1, y1) ==
    IF x = x1 /\ y = y1 THEN {<<>>}
    ELSE UNION {{<< <<x, y>> >> \o l :
                    l \in Bresenham_end_excluded(x + d[1], y + d[2], x1, y1)} :
                   d \in BresenhamSteps(x, y, x1, y1)}

\* The point sequences Bresenham::new((x, y), (x1, y1)) can yield: the start
\* first, the end last, and between them the steps above.
RECURSIVE Bresenham(_, _, _, _)
Bresenham(x, y, x1, y1) ==
    IF x = x1 /\ y = y1 THEN {<< <<x, y>> >>}
    ELSE UNION {{<< <<x, y>> >> \o l : l \in Bresenham(x + d[1], y + d[2], x1, y1)} :
                   d \in BresenhamSteps(x, y, x1, y1)}

\* The lines set_line(x0, y0, x1, y1) can walk: from the clamped start.
set_line_lines(self, x0, y0, x1, y1) ==
    Bresenham(Clamp(x0, self.width), Clamp(y0, self.height), x1, y1)

\* Mutant of the loop of set_line: a point outside the lattice is skipped
\* and the loop goes on.
RECURSIVE set_line_loop_continue(_, _, _)
set_line_loop_continue(self, line, k) ==
    IF k > Len(line) THEN {}
    ELSE LET i == grid_idx(self, line[k][1], line[k][2])
         IN IF i # None THEN {i} \cup set_line_loop_continue(self, line, k + 1)
            ELSE set_line_loop_continue(self, line, k + 1)

\* The loop of set_line from the k-th point of the line on: the indices it
\* writes before the first point outside the lattice, where it breaks.
RECURSIVE set_line_loop(_, _, _)
set_line_loop(self, line, k) ==
    IF k > Len(line) THEN {}
    ELSE LET i == grid_idx(self, line[k][1], line[k][2])
         IN IF i # None THEN {i} \cup set_line_loop(self, line, k + 1)
            ELSE {}

(***************************************************************************)
(* new_empty(width, height): assert!(width != 0 && height != 0), then      *)
(* width.checked_mul(height).expect("too big").  A usize is kept as its    *)
(* UsizeBytes bytes, least significant first, so that the product of two   *)
(* of them is computed exactly.                                            *)
(***************************************************************************)
UsizeBytes == 8

\* The usize of a small natural number (below 2^31).
usize(n) ==
    [k \in 0..(UsizeBytes - 1) |-> IF k < 4 THEN (n \div (256 ^ k)) % 256 ELSE 0]

\* usize::MAX
usize_MAX == [k \in 0..(UsizeBytes - 1) |-> 255]

\* 1 << e
usize_pow2(e) ==
    [k \in 0..(UsizeBytes - 1) |-> IF k = e \div 8 THEN 2 ^ (e % 8) ELSE 0]

\* width != 0
usize_nonzero(a) == \E k \in DOMAIN a : a[k] # 0

\* `as` a small natural number, for a usize below 2^31.
usize_small(a) ==
    /\ \A k \in DOMAIN a : k >= 4 => a[k] = 0
    /\ a[3] < 128

usize_value(a) == a[0] + 256 * a[1] + 65536 * a[2] + 16777216 * a[3]

\* Column k of the long multiplication of a and b, from term i on.
RECURSIVE MulColumnFrom(_, _, _, _)
MulColumnFrom(a, b, k, i) ==
    IF i > k \/ i >= UsizeBytes THEN 0
    ELSE (IF k - i < UsizeBytes THEN a[i] * b[k - i] ELSE 0)
         + MulColumnFrom(a, b, k, i + 1)

\* The carry into column k.
RECURSIVE MulCarry(_, _, _)
MulCarry(a, b, k) ==
    IF k = 0 THEN 0
    ELSE (MulColumnFrom(a, b, k - 1, 0) + MulCarry(a, b, k - 1)) \div 256

MulDigit(a, b, k) == (MulColumnFrom(a, b, k, 0) + MulCarry(a, b, k)) % 256

\* Mutant of checked_mul: the product wraps instead of being refused.
wrapping_mul_as_checked(a, b) ==
    [some |-> TRUE, value |-> [k \in 0..(UsizeBytes - 1) |-> MulDigit(a, b, k)]]

\* usize::checked_mul: None when the product needs more than UsizeBytes bytes.
checked_mul(a, b) ==
    IF \E k \in UsizeBytes..(2 * UsizeBytes - 1) : MulDigit(a, b, k) # 0
    THEN [some |-> FALSE, value |-> usize(0)]
    ELSE [some |-> TRUE, value |-> [k \in 0..(UsizeBytes - 1) |-> MulDigit(a, b, k)]]

\* new_empty panics: the assertion fails, or expect() meets None.
new_empty_panics(width, height) ==
    \/ ~(usize_nonzero(width) /\ usize_nonzero(height))
    \/ ~checked_mul(width, height).some

\* The size new_empty allocates its Vecs with.
new_empty_size(width, height) == checked_mul(width, height).value

(***************************************************************************)
(*                          sandpiles.rs                                    *)
(***************************************************************************)

\* u32::saturating_add, on 16-bit limbs: the saturated value 2^32 - 1 is
\* beyond the integers of the model checker, and so is never written out.
saturating_add(a, b) ==
    LET lo == (a % 65536) + (b % 65536)
        hi == (a \div 65536) + (b \div 65536) + (lo \div 65536)
    IN IF hi > 65535 THEN 65535 * 65536 + 65535
       ELSE hi * 65536 + (lo % 65536)

\* Mutant of next_state: a pile of exactly TOPPLE_HEIGHT does not topple.
Pile_next_state_above(grains) ==
    IF grains > TOPPLE_HEIGHT THEN grains - TOPPLE_HEIGHT ELSE grains

\* Mutant of next_state: a toppling pile keeps one of the four grains.
Pile_next_state_keeps_one(grains) ==
    IF grains >= TOPPLE_HEIGHT THEN grains - TOPPLE_HEIGHT + 1 ELSE grains

Pile_next_state(grains) ==
    IF grains >= TOPPLE_HEIGHT THEN grains - TOPPLE_HEIGHT ELSE grains

\* Mutant of give_grain: a tall pile hands two grains to each neighbour.
Pile_give_grain_two(grains) ==
    IF grains >= TOPPLE_HEIGHT THEN 2 ELSE 0

Pile_give_grain(grains) ==
    IF grains >= TOPPLE_HEIGHT THEN 1 ELSE 0

Pile_add_grains(self_grains, grains) == saturating_add(self_grains, grains)

SandPiles_new_empty(width, height) ==
    [piles |-> Vec(width * height, 0),
     scratch_piles |-> Vec(width * height, 0),
     width |-> width,
     height |-> height]

\* Mutant of WrapPair: the lattice edge reflects instead of wrapping.
WrapPair_reflecting(v, size) ==
    IF v = 0 THEN <<v, v + 1>>
    ELSE IF v = size - 1 THEN <<v - 1, v>>
    ELSE <<v - 1, v + 1>>

\* The (xm1, xp1) / (ym1, yp1) selection shared by count_tall_neibs and neibs.
WrapPair(v, size) ==
    IF v = 0 THEN <<size - 1, v + 1>>
    ELSE IF v = size - 1 THEN <<v - 1, 0>>
    ELSE <<v - 1, v + 1>>

\* The four indices count_tall_neibs reads, in the order it reads them.
SandPiles_neib_idx(self, x, y) ==
    LET xw == WrapPair(x, self.width)
        yw == WrapPair(y, self.height)
    IN << x + yw[1] * self.width,
          xw[1] + y * self.width,
          xw[2] + y * self.width,
          x + yw[2] * self.width >>

\* Mutant of count_tall_neibs: the neighbour below is not read.
SandPiles_count_tall_neibs_three(self, x, y) ==
    LET n == SandPiles_neib_idx(self, x, y)
    IN Pile_give_grain(self.piles[n[1]]) + Pile_give_grain(self.piles[n[2]])
       + Pile_give_grain(self.piles[n[3]])

SandPiles_count_tall_neibs(self, x, y) ==
    LET n == SandPiles_neib_idx(self, x, y)
    IN Pile_give_grain(self.piles[n[1]]) + Pile_give_grain(self.piles[n[2]])
       + Pile_give_grain(self.piles[n[3]]) + Pile_give_grain(self.piles[n[4]])

\* update() panics when one of the indices it reads is outside the Vec.
SandPiles_update_panics(self) ==
    \E y \in 0..(self.height - 1), x \in 0..(self.width - 1) :
        \E k \in 1..4 : SandPiles_neib_idx(self, x, y)[k] \notin DOMAIN self.piles

\* update(): every cell of scratch_piles is written from piles, then swap.
SandPiles_update(self) ==
    LET next == [idx \in DOMAIN self.piles |->
                    LET xy == <<idx % self.width, idx \div self.width>>
                    IN Pile_add_grains(Pile_next_state(self.piles[idx]),
                           SandPiles_count_tall_neibs(self, xy[1], xy[2]))]
    IN [self EXCEPT !.piles = next, !.scratch_piles = self.piles]

SandPiles_set_pile(self, x, y) ==
    LET i == grid_idx(self, x, y)
    IN IF i # None THEN [self EXCEPT !.piles[i] = CLICK_HEIGHT] ELSE self

\* Mutant of clear(): the piles are rebuilt as one row only.
SandPiles_clear_one_row(self) == [self EXCEPT !.piles = Vec(self.width, 0)]

SandPiles_clear(self) == [self EXCEPT !.piles = Vec(self.width * self.height, 0)]

\* randomize(): draw[i] is None when the fill test leaves pile i alone, and
\* otherwise the u32 drawn for it, of which the pile gets the residue mod 64.
SandPiles_randomize(self, draw) ==
    [self EXCEPT !.piles = [i \in DOMAIN self.piles |->
                               IF draw[i] = None THEN self.piles[i] ELSE draw[i] % 64]]

\* set_line(): CLICK_HEIGHT on every point the line wrote.
SandPiles_set_line(self, written) ==
    [self EXCEPT !.piles = [i \in DOMAIN self.piles |->
                               IF i \in written THEN CLICK_HEIGHT ELSE self.piles[i]]]

\* The fill test of randomize() for one pile: u is the uniform draw in
\* hundredths, grains the u32 drawn next when the test passes.
SandPiles_fill(u, grains) == IF u < RANDOM_FILL THEN grains ELSE None

\* center_pile(): grid_idx(SCREEN_WIDTH/2, SCREEN_HEIGHT/2).unwrap() panics
\* on None.
SandPiles_center_pile_panics(self) ==
    grid_idx(self, SCREEN_WIDTH \div 2, SCREEN_HEIGHT \div 2) = None

SandPiles_center_pile(self) ==
    LET pos == grid_idx(self, SCREEN_WIDTH \div 2, SCREEN_HEIGHT \div 2)
    IN [self EXCEPT !.piles[pos] = CENTER_HEIGHT]

\* `as u8` of a u32.
u8(n) == n % 256

\* Mutant of pixel_color: a pile of exactly TOPPLE_HEIGHT is coloured as a
\* taller one.
pixel_color_at_least(height) ==
    IF height >= TOPPLE_HEIGHT THEN <<255, 255, 0, 255>>
    ELSE <<u8(u8(height) * 50), 0, u8(u8(height) * 80), 255>>

pixel_color(height) ==
    IF height > TOPPLE_HEIGHT THEN <<255, 255, 0, 255>>
    ELSE IF height = TOPPLE_HEIGHT THEN <<0, 221, 221, 255>>
    ELSE <<u8(u8(height) * 50), 0, u8(u8(height) * 80), 255>>

\* draw(): the cells are zipped with the 4-byte chunks of a screen of len
\* bytes; the result is the sequence of the writes, each the byte offset of
\* a chunk and the four bytes copied into it.  colors[i] is the colour of
\* cell i.
DrawWrites(colors, len) ==
    LET n == IF Cardinality(DOMAIN colors) < len \div 4
             THEN Cardinality(DOMAIN colors) ELSE len \div 4
    IN [k \in 1..n |-> [offset |-> 4 * (k - 1), bytes |-> colors[k - 1]]]

SandPiles_draw(self, len) ==
    DrawWrites([i \in DOMAIN self.piles |-> pixel_color(self.piles[i])], len)

(***************************************************************************)
(*                          elementary.rs                                   *)
(***************************************************************************)

\* Mutant of Cell::next_state: the arm (true, false, false) gives true.
Rule110Cell_next_state_arm_flipped(neibs) ==
    neibs \notin {<<TRUE, TRUE, TRUE>>, <<FALSE, FALSE, FALSE>>}

\* Cell::next_state: the match on the ordered triple; the cell's own state
\* is not read.
Rule110Cell_next_state(neibs) ==
    CASE neibs = <<TRUE, TRUE, TRUE>> -> FALSE
      [] neibs = <<TRUE, TRUE, FALSE>> -> TRUE
      [] neibs = <<TRUE, FALSE, TRUE>> -> TRUE
      [] neibs = <<TRUE, FALSE, FALSE>> -> FALSE
      [] neibs = <<FALSE, TRUE, TRUE>> -> TRUE
      [] neibs = <<FALSE, TRUE, FALSE>> -> TRUE
      [] neibs = <<FALSE, FALSE, TRUE>> -> TRUE
      [] neibs = <<FALSE, FALSE, FALSE>> -> FALSE

Rule110_new_empty(width, height) ==
    [cells |-> Vec(width * height, FALSE),
     scratch_cells |-> Vec(width * height, FALSE),
     width |-> width,
     height |-> height,
     active_line |-> 1]

\* The three indices neibs reads, left to right.
Rule110_neibs_idx(self, x, y) ==
    LET xw == WrapPair(x, self.width)
        yw == WrapPair(y, self.height)
    IN << xw[1] + yw[1] * self.width,
          x + yw[1] * self.width,
          xw[2] + yw[1] * self.width >>

Rule110_neibs(self, x, y) ==
    LET n == Rule110_neibs_idx(self, x, y)
    IN <<self.cells[n[1]], self.cells[n[2]], self.cells[n[3]]>>

\* update() panics when neibs or the read of cells[idx] leaves the Vec.
Rule110_update_panics(self) ==
    /\ self.active_line # 0
    /\ \E x \in 0..(self.width - 1) :
          \/ \E k \in 1..3 :
                Rule110_neibs_idx(self, x, self.active_line)[k] \notin DOMAIN self.cells
          \/ (x + self.active_line * self.width) \notin DOMAIN self.cells

\* The row update() writes (into scratch_cells), or None when it writes none.
Rule110_written_row(self) ==
    IF self.active_line = 0 THEN None ELSE self.active_line

\* Mutant of the line advance: past the last row the line restarts at row 1.
Rule110_next_line_scrolling(self) ==
    IF self.active_line + 1 >= self.height THEN 1 ELSE self.active_line + 1

\* active_line after update().
Rule110_next_line(self) ==
    IF self.active_line + 1 >= self.height THEN 0 ELSE self.active_line + 1

\* Mutant of update(): the buffers are swapped on the frozen line too.
Rule110_update_swap_when_frozen(self) ==
    IF self.active_line = 0
    THEN [self EXCEPT !.cells = self.scratch_cells, !.scratch_cells = self.cells]
    ELSE [self EXCEPT
            !.cells = [idx \in DOMAIN self.scratch_cells |->
                 IF idx \div self.width = self.active_line
                 THEN Rule110Cell_next_state(
                          Rule110_neibs(self, idx % self.width, self.active_line))
                 ELSE self.scratch_cells[idx]],
            !.scratch_cells = self.cells,
            !.active_line = IF self.active_line + 1 >= self.height
                            THEN 0 ELSE self.active_line + 1]

\* update(): row active_line of scratch_cells is written from cells, the
\* line advances, and the two buffers are swapped.
Rule110_update(self) ==
    LET y == self.active_line IN
    IF y = 0 THEN self
    ELSE LET written == [idx \in DOMAIN self.scratch_cells |->
                 IF idx \div self.width = y
                 THEN Rule110Cell_next_state(Rule110_neibs(self, idx % self.width, y))
                 ELSE self.scratch_cells[idx]]
         IN [self EXCEPT !.cells = written,
                         !.scratch_cells = self.cells,
                         !.active_line = Rule110_next_line(self)]

\* Mutant of clear: the active line is left where it was.
Rule110_clear_keeps_line(self) ==
    [self EXCEPT !.cells = Vec(self.width * self.height, FALSE),
                 !.scratch_cells = Vec(self.width * self.height, FALSE)]

Rule110_clear(self) ==
    [self EXCEPT !.active_line = 1,
                 !.cells = Vec(self.width * self.height, FALSE),
                 !.scratch_cells = Vec(self.width * self.height, FALSE)]

Rule110_toggle(self, x, y) ==
    LET i == grid_idx(self, x, y)
    IN IF i # None THEN [self EXCEPT !.cells[i] = ~self.cells[i]] ELSE self

\* randomize(): the cells are replaced in index order by the drawn values
\* until the index exceeds SCREEN_WIDTH.
Rule110_randomize(self, draw) ==
    [self EXCEPT !.cells = [n \in DOMAIN self.cells |->
                               IF n > SCREEN_WIDTH THEN self.cells[n] ELSE draw[n]]]

\* set_line(): set_alive() on every point the line wrote; the parameter
\* alive is not read.
Rule110_set_line(self, written, alive) ==
    [self EXCEPT !.cells = [i \in DOMAIN self.cells |->
                               IF i \in written THEN TRUE ELSE self.cells[i]]]

\* The colour draw() gives a boolean cell, in all the boolean automata.
alive_color(alive) == IF alive THEN <<255, 255, 255, 255>> ELSE <<0, 0, 0, 255>>

Rule110_draw(self, len) ==
    DrawWrites([i \in DOMAIN self.cells |-> alive_color(self.cells[i])], len)

\* The value toggle() returns.
Rule110_toggle_returns(self, x, y) ==
    LET i == grid_idx(self, x, y)
    IN IF i # None THEN ~self.cells[i] ELSE FALSE

(***************************************************************************)
(*                        single_rotation.rs                                *)
(***************************************************************************)

MarGrid_new_empty(width, height) ==
    [cells |-> Vec(width * height, FALSE),
     width |-> width,
     height |-> height,
     reverse |-> FALSE,
     phase |-> FALSE]

\* Mutant of reverse(): the direction flips, the phase does not.
MarGrid_reverse_keeps_phase(self) == [self EXCEPT !.reverse = ~self.reverse]

\* Mutant of reverse(): the direction is set to reversed instead of flipped.
MarGrid_reverse_sets_flag(self) ==
    [self EXCEPT !.phase = ~self.phase, !.reverse = TRUE]

MarGrid_reverse(self) ==
    [self EXCEPT !.phase = ~self.phase, !.reverse = ~self.reverse]

Bit(b) == IF b THEN 1 ELSE 0

\* count_big_cell: the live count of the block anchored at (x, y) and its
\* four indices in the order the code lists them.
MarGrid_count_big_cell(self, x, y) ==
    LET xp1 == IF x = self.width - 1 THEN 0 ELSE x + 1
        yp1 == IF y = self.height - 1 THEN 0 ELSE y + 1
    IN [count |-> Bit(self.cells[x + y * self.width])
                  + Bit(self.cells[xp1 + y * self.width])
                  + Bit(self.cells[x + yp1 * self.width])
                  + Bit(self.cells[xp1 + yp1 * self.width]),
        cell_pos |-> << x + y * self.width,
                        xp1 + y * self.width,
                        xp1 + yp1 * self.width,
                        x + yp1 * self.width >>]

\* Mutant of update_big_cell: the assignments of the other direction.
MarGrid_update_big_cell_other_way(self, n, cells) ==
    IF n = 1
    THEN [self EXCEPT !.cells =
            [i \in DOMAIN self.cells |->
                IF i = cells[1] THEN self.cells[cells[4]]
                ELSE IF i = cells[2] THEN self.cells[cells[1]]
                ELSE IF i = cells[3] THEN self.cells[cells[2]]
                ELSE IF i = cells[4] THEN self.cells[cells[3]]
                ELSE self.cells[i]]]
    ELSE self

\* The four assignments of update_big_cell, in order, from the saved t0..t3.
MarGrid_update_big_cell(self, n, cells) ==
    IF n = 1
    THEN LET t0 == self.cells[cells[1]]
             t1 == self.cells[cells[2]]
             t2 == self.cells[cells[3]]
             t3 == self.cells[cells[4]]
             c0 == [self.cells EXCEPT ![cells[1]] = t1]
             c1 == [c0 EXCEPT ![cells[2]] = t2]
             c2 == [c1 EXCEPT ![cells[3]] = t3]
             c3 == [c2 EXCEPT ![cells[4]] = t0]
         IN [self EXCEPT !.cells = c3]
    ELSE self

\* Mutant of update_big_cell_reverse: the assignments read the block as the
\* assignments before them left it, not the saved t0..t3.
MarGrid_update_big_cell_reverse_unsaved(self, n, cells) ==
    IF n = 1
    THEN LET c0 == [self.cells EXCEPT ![cells[1]] = self.cells[cells[4]]]
             c1 == [c0 EXCEPT ![cells[2]] = c0[cells[1]]]
             c2 == [c1 EXCEPT ![cells[3]] = c1[cells[2]]]
             c3 == [c2 EXCEPT ![cells[4]] = c2[cells[3]]]
         IN [self EXCEPT !.cells = c3]
    ELSE self

MarGrid_update_big_cell_reverse(self, n, cells) ==
    IF n = 1
    THEN LET t0 == self.cells[cells[1]]
             t1 == self.cells[cells[2]]
             t2 == self.cells[cells[3]]
             t3 == self.cells[cells[4]]
             c0 == [self.cells EXCEPT ![cells[1]] = t3]
             c1 == [c0 EXCEPT ![cells[2]] = t0]
             c2 == [c1 EXCEPT ![cells[3]] = t1]
             c3 == [c2 EXCEPT ![cells[4]] = t2]
         IN [self EXCEPT !.cells = c3]
    ELSE self

\* The anchor of the k-th block of a pass: the loops run yt over
\* 0..height/2 and, inside, xt over 0..width/2; idx = xt*2 + yt*width*2 is
\* turned back into (x, y) by idx_grid and shifted by off (0 or 1).
\* Mutant of the block anchor: idx = xt + yt*width*2, blocks one column apart.
BlockAnchor_stride_one(self, k, off) ==
    LET xt == k % (self.width \div 2)
        yt == k \div (self.width \div 2)
        xy == idx_grid(self, xt + yt * self.width * 2)
    IN <<xy[1] + off, xy[2] + off>>

BlockAnchor(self, k, off) ==
    LET xt == k % (self.width \div 2)
        yt == k \div (self.width \div 2)
        xy == idx_grid(self, xt * 2 + yt * self.width * 2)
    IN <<xy[1] + off, xy[2] + off>>

BlockCount(self) == (self.height \div 2) * (self.width \div 2)

\* One block of a pass of single rotation: count, then rotate by direction.
MarGrid_update_block(self, x, y) ==
    LET big == MarGrid_count_big_cell(self, x, y)
    IN IF self.reverse
       THEN MarGrid_update_big_cell_reverse(self, big.count, big.cell_pos)
       ELSE MarGrid_update_big_cell(self, big.count, big.cell_pos)

\* The blocks k, k+1, ... of a pass, one after the other, in place.
RECURSIVE MarGrid_update_grid(_, _, _)
MarGrid_update_grid(self, k, off) ==
    IF k >= BlockCount(self) THEN self
    ELSE LET a == BlockAnchor(self, k, off)
         IN MarGrid_update_grid(MarGrid_update_block(self, a[1], a[2]), k + 1, off)

MarGrid_update_grid_1(self) == MarGrid_update_grid(self, 0, 0)

MarGrid_update_grid_2(self) == MarGrid_update_grid(self, 0, 1)

\* Mutant of update(): the passes are selected the other way round.
MarGrid_update_passes_swapped(self) ==
    LET s == [self EXCEPT !.phase = ~self.phase]
    IN IF s.phase THEN MarGrid_update_grid_2(s) ELSE MarGrid_update_grid_1(s)

\* update(): toggle phase, then the pass the new phase selects.
MarGrid_update(self) ==
    LET s == [self EXCEPT !.phase = ~self.phase]
    IN IF s.phase THEN MarGrid_update_grid_1(s) ELSE MarGrid_update_grid_2(s)

MarGrid_toggle(self, x, y) ==
    LET i == grid_idx(self, x, y)
    IN IF i # None THEN [self EXCEPT !.cells[i] = ~self.cells[i]] ELSE self

\* Mutant of clear(): the lattice is built anew, flags included.
MarGrid_clear_rebuilds(self) == MarGrid_new_empty(self.width, self.height)

MarGrid_clear(self) == [self EXCEPT !.cells = Vec(self.width * self.height, FALSE)]

\* randomize(): every cell is replaced by its draw.
MarGrid_randomize(self, draw) ==
    [self EXCEPT !.cells = [n \in DOMAIN self.cells |-> draw[n]]]

\* Mutant of toggle(): it returns the state the cell had.
MarGrid_toggle_returns_was_alive(self, x, y) ==
    LET i == grid_idx(self, x, y)
    IN IF i # None THEN self.cells[i] ELSE FALSE

\* The value toggle() returns.
MarGrid_toggle_returns(self, x, y) ==
    LET i == grid_idx(self, x, y)
    IN IF i # None THEN ~self.cells[i] ELSE FALSE

\* set_line(): set_alive(alive) on every point the line wrote.
MarGrid_set_line(self, written, alive) ==
    [self EXCEPT !.cells = [i \in DOMAIN self.cells |->
                               IF i \in written THEN alive ELSE self.cells[i]]]

MarGrid_draw(self, len) ==
    DrawWrites([i \in DOMAIN self.cells |-> alive_color(self.cells[i])], len)

(***************************************************************************)
(*                     multicolor.rs (Critters rule)                        *)
(***************************************************************************)

\* new_empty sets cells, scratch_cells, width and height.  update() reads
\* self.reverse, a field the struct does not declare and nothing writes: it
\* is a parameter here, fixed when the lattice is made.
Critters_new_empty(width, height, reverse) ==
    [cells |-> Vec(width * height, FALSE),
     scratch_cells |-> Vec(width * height, FALSE),
     width |-> width,
     height |-> height,
     reverse |-> reverse]

Critters_count_big_cell(self, x, y) ==
    LET xp1 == WrapPair(x, self.width)[2]
        yp1 == WrapPair(y, self.height)[2]
    IN [count |-> Bit(self.cells[x + y * self.width])
                  + Bit(self.cells[xp1 + y * self.width])
                  + Bit(self.cells[x + yp1 * self.width])
                  + Bit(self.cells[xp1 + yp1 * self.width]),
        cell_pos |-> << x + y * self.width,
                        xp1 + y * self.width,
                        xp1 + yp1 * self.width,
                        x + yp1 * self.width >>]

\* The four positions count_big_cell of multicolor.rs returns.
Critters_cell_pos(self, x, y) ==
    LET xp1 == WrapPair(x, self.width)[2]
        yp1 == WrapPair(y, self.height)[2]
    IN << x + y * self.width, xp1 + y * self.width,
          xp1 + yp1 * self.width, x + yp1 * self.width >>

\* The four positions count_big_cell of critters.rs returns.
CrittersRs_cell_pos(self, x, y) ==
    LET xp1 == WrapPair(x, self.width)[2]
        yp1 == WrapPair(y, self.height)[2]
    IN << x + y * self.width, xp1 + y * self.width,
          x + yp1 * self.width, xp1 + yp1 * self.width >>

\* Cell::toggle on each of the four positions, one after the other.
Critters_toggle_all(cs, cells) ==
    LET c0 == [cs EXCEPT ![cells[1]] = ~cs[cells[1]]]
        c1 == [c0 EXCEPT ![cells[2]] = ~c0[cells[2]]]
        c2 == [c1 EXCEPT ![cells[3]] = ~c1[cells[3]]]
    IN [c2 EXCEPT ![cells[4]] = ~c2[cells[4]]]

\* Mutant of update_big_cell: a full block is left alone, like a block of two.
Critters_update_big_cell_four_kept(self, n, cells) ==
    IF n \in {2, 4} THEN self
    ELSE IF n \in {0, 1}
    THEN [self EXCEPT !.cells = Critters_toggle_all(self.cells, cells)]
    ELSE LET c3 == [i \in DOMAIN self.cells |->
                       IF i = cells[1] THEN self.cells[cells[3]]
                       ELSE IF i = cells[2] THEN self.cells[cells[4]]
                       ELSE IF i = cells[3] THEN self.cells[cells[1]]
                       ELSE IF i = cells[4] THEN self.cells[cells[2]]
                       ELSE self.cells[i]]
         IN [self EXCEPT !.cells = Critters_toggle_all(c3, cells)]

\* Mutant of update_big_cell: a block of three is left alone, like a block of two.
Critters_update_big_cell_three_kept(self, n, cells) ==
    IF n \in {2, 3} THEN self
    ELSE [self EXCEPT !.cells = Critters_toggle_all(self.cells, cells)]

\* Mutant of update_big_cell: a block of three is inverted without the rotation.
Critters_update_big_cell_no_rotation(self, n, cells) ==
    IF n = 2 THEN self
    ELSE [self EXCEPT !.cells = Critters_toggle_all(self.cells, cells)]

Critters_update_big_cell(self, n, cells) ==
    IF n = 2 THEN self
    ELSE IF n \in {0, 1, 4}
    THEN [self EXCEPT !.cells = Critters_toggle_all(self.cells, cells)]
    ELSE LET t0 == self.cells[cells[1]]
             t1 == self.cells[cells[2]]
             t2 == self.cells[cells[3]]
             t3 == self.cells[cells[4]]
             c0 == [self.cells EXCEPT ![cells[1]] = t2]
             c1 == [c0 EXCEPT ![cells[2]] = t3]
             c2 == [c1 EXCEPT ![cells[3]] = t0]
             c3 == [c2 EXCEPT ![cells[4]] = t1]
         IN [self EXCEPT !.cells = Critters_toggle_all(c3, cells)]

Critters_update_block(self, x, y) ==
    LET big == Critters_count_big_cell(self, x, y)
    IN Critters_update_big_cell(self, big.count, big.cell_pos)

RECURSIVE Critters_update_grid(_, _, _)
Critters_update_grid(self, k, off) ==
    IF k >= BlockCount(self) THEN self
    ELSE LET a == BlockAnchor(self, k, off)
         IN Critters_update_grid(Critters_update_block(self, a[1], a[2]), k + 1, off)

Critters_update_grid_1(self) == Critters_update_grid(self, 0, 0)

Critters_update_grid_2(self) == Critters_update_grid(self, 0, 1)

\* The first pass of update(): update_grid_2 when reverse, else update_grid_1.
Critters_first_pass(self) ==
    IF self.reverse THEN Critters_update_grid_2(self) ELSE Critters_update_grid_1(self)

\* Mutant of update(): update_grid_1 then update_grid_2 whatever reverse is.
Critters_update_ignores_reverse(self) ==
    Critters_update_grid_2(Critters_update_grid_1(self))

\* update(): both passes, in the order reverse selects.
Critters_update(self) ==
    IF self.reverse
    THEN Critters_update_grid_1(Critters_update_grid_2(self))
    ELSE Critters_update_grid_2(Critters_update_grid_1(self))

Critters_toggle(self, x, y) ==
    LET i == grid_idx(self, x, y)
    IN IF i # None THEN [self EXCEPT !.cells[i] = ~self.cells[i]] ELSE self

Critters_clear(self) == [self EXCEPT !.cells = Vec(self.width * self.height, FALSE)]

(***************************************************************************)
(*                     critters.rs and the totalistic engine                *)
(* critters.rs holds the Cell of the rule-table automata: update_neibs      *)
(* looks the neighbour count up in a rule table of nine entries.  The       *)
(* engine that builds the table from a rule code and steps the lattice      *)
(* (totalistic.rs) is not among the sources; RuleTable and                  *)
(* Totalistic_update follow its description: entry n of the table is bit n  *)
(* of the code, and a step gives every cell update_neibs of the number of   *)
(* live cells among its eight neighbours on the torus, written into the     *)
(* scratch buffer, and swaps the buffers.                                   *)
(***************************************************************************)

Cell_next_state(self, alive) == alive

\* Mutant of update_neibs: a live cell stays alive when its entry is false.
Cell_update_neibs_births_only(self, n, rule) == self \/ rule[n]

Cell_update_neibs(self, n, rule) == Cell_next_state(self, rule[n])

RuleTable(code) == [n \in 0..8 |-> (code \div (2 ^ n)) % 2 = 1]

Totalistic_update(self) ==
    LET at(x, y) == ((x + self.width) % self.width)
                    + ((y + self.height) % self.height) * self.width
        neibs(x, y) ==
            Bit(self.cells[at(x - 1, y - 1)]) + Bit(self.cells[at(x, y - 1)])
            + Bit(self.cells[at(x + 1, y - 1)]) + Bit(self.cells[at(x - 1, y)])
            + Bit(self.cells[at(x + 1, y)]) + Bit(self.cells[at(x - 1, y + 1)])
            + Bit(self.cells[at(x, y + 1)]) + Bit(self.cells[at(x + 1, y + 1)])
        next == [idx \in DOMAIN self.cells |->
                    Cell_update_neibs(self.cells[idx],
                                      neibs(idx % self.width, idx \div self.width),
                                      self.rule)]
    IN [self EXCEPT !.cells = next, !.scratch_cells = self.cells]

(***************************************************************************)
(* Rule codes.  The runners of the rule-table automata (totalistic.rs,      *)
(* outer_totalistic.rs) are not among the sources; what follows is their    *)
(* description: a totalistic code has one bit per neighbour count 0..8 and  *)
(* lies below 2^9, an outer-totalistic code has one bit per pair of centre  *)
(* state and neighbour count and lies below 2^18.  A code at or above the   *)
(* bound of its family is rejected with InvalidRuleCode and no lattice is   *)
(* built; otherwise the lattice is built by new_empty (critters.rs).        *)
(***************************************************************************)
RuleBound(family) == IF family = "totalistic" THEN 2 ^ 9 ELSE 2 ^ 18

\* Mutant of the validation: the bound itself is accepted.
RuleCode_valid_inclusive(family, code) == code <= RuleBound(family)

RuleCode_valid(family, code) == code < RuleBound(family)

\* Entry 9 * centre + n of the table is bit 9 * centre + n of the code.
OuterRuleTable(code) == [k \in 0..17 |-> (code \div (2 ^ k)) % 2 = 1]

\* No lattice: what a rejected construction leaves behind.
NoLattice ==
    [cells |-> <<>>, scratch_cells |-> <<>>, width |-> 0, height |-> 0,
     rule |-> <<>>]

\* The result of a construction: the condition raised ("Ok" for none) and
\* the lattice.
Rule_new(family, code, width, height) ==
    IF ~RuleCode_valid(family, code)
    THEN [result |-> "InvalidRuleCode", life |-> NoLattice]
    ELSE [result |-> "Ok",
          life |-> [cells |-> Vec(width * height, FALSE),
                    scratch_cells |-> Vec(width * height, FALSE),
                    width |-> width, height |-> height,
                    rule |-> IF family = "totalistic" THEN RuleTable(code)
                             ELSE OuterRuleTable(code)]]

\* The outer-totalistic step: the table is read at the pair of the cell's
\* own state and the number of live cells among its eight neighbours.
OuterTotalistic_update(self) ==
    LET at(x, y) == ((x + self.width) % self.width)
                    + ((y + self.height) % self.height) * self.width
        neibs(x, y) ==
            Bit(self.cells[at(x - 1, y - 1)]) + Bit(self.cells[at(x, y - 1)])
            + Bit(self.cells[at(x + 1, y - 1)]) + Bit(self.cells[at(x - 1, y)])
            + Bit(self.cells[at(x + 1, y)]) + Bit(self.cells[at(x - 1, y + 1)])
            + Bit(self.cells[at(x, y + 1)]) + Bit(self.cells[at(x + 1, y + 1)])
        next == [idx \in DOMAIN self.cells |->
                    Cell_next_state(self.cells[idx],
                        self.rule[9 * Bit(self.cells[idx])
                                  + neibs(idx % self.width, idx \div self.width)])]
    IN [self EXCEPT !.cells = next, !.scratch_cells = self.cells]

(***************************************************************************)
(*                      The four state machines                             *)
(* Each specification runs one automaton; the structs of the other three    *)
(* stay at the value given here.                                            *)
(***************************************************************************)

IdleSand == SandPiles_new_empty(1, 1)
IdleElem == Rule110_new_empty(1, 1)
IdleRot == MarGrid_new_empty(1, 1)
IdleCrit == Critters_new_empty(1, 1, FALSE)

\* ---------------------------------------------------------------- sandpile

InitSand ==
    /\ \E d \in Dims(MaxCells) : sand = SandPiles_new_empty(d[1], d[2])
    /\ elem = IdleElem /\ rot = IdleRot /\ crit = IdleCrit
    /\ hist = [op |-> "new_empty", pre |-> sand]
    /\ panicked = FALSE /\ steps = 0 /\ edits = 0

SandUpdate ==
    /\ ~panicked /\ steps < MaxSandSteps
    /\ steps' = steps + 1
    /\ IF SandPiles_update_panics(sand)
       THEN /\ panicked' = TRUE
            /\ sand' = sand
            /\ hist' = [op |-> "panic", pre |-> sand]
       ELSE /\ panicked' = FALSE
            /\ sand' = SandPiles_update(sand)
            /\ hist' = [op |-> "update", pre |-> sand]
    /\ UNCHANGED <<elem, rot, crit, edits>>

SandSetPile ==
    /\ ~panicked /\ edits < MaxSandEdits
    /\ \E x \in XCoords(sand), y \in YCoords(sand) :
          /\ sand' = SandPiles_set_pile(sand, x, y)
          /\ hist' = [op |-> "set_pile", pre |-> sand]
    /\ edits' = edits + 1
    /\ UNCHANGED <<elem, rot, crit, panicked, steps>>

SandClear ==
    /\ ~panicked /\ edits < MaxSandEdits
    /\ sand' = SandPiles_clear(sand)
    /\ hist' = [op |-> "clear", pre |-> sand]
    /\ edits' = edits + 1
    /\ UNCHANGED <<elem, rot, crit, panicked, steps>>

NextSand == SandUpdate \/ SandSetPile \/ SandClear

SpecSand == InitSand /\ [][NextSand]_vars

\* -------------------------------------------------------------- elementary
\* hist.updates counts the update() calls since new_empty or clear();
\* hist.writes[r] counts those of them that wrote row r.

NoWrites(self) == [r \in 0..(self.height - 1) |-> 0]

InitElem ==
    /\ \E d \in Dims(MaxCells) : elem = Rule110_new_empty(d[1], d[2])
    /\ sand = IdleSand /\ rot = IdleRot /\ crit = IdleCrit
    /\ hist = [op |-> "new_empty", pre |-> elem, updates |-> 0, writes |-> NoWrites(elem)]
    /\ panicked = FALSE /\ steps = 0 /\ edits = 0

ElemUpdate ==
    /\ ~panicked /\ steps < MaxSteps
    /\ steps' = steps + 1
    /\ IF Rule110_update_panics(elem)
       THEN /\ panicked' = TRUE
            /\ elem' = elem
            /\ hist' = [hist EXCEPT !.op = "panic", !.pre = elem]
       ELSE /\ panicked' = FALSE
            /\ elem' = Rule110_update(elem)
            /\ hist' = [op |-> "update",
                        pre |-> elem,
                        updates |-> hist.updates + 1,
                        writes |-> IF Rule110_written_row(elem) = None
                                   THEN hist.writes
                                   ELSE [hist.writes EXCEPT
                                            ![Rule110_written_row(elem)] = @ + 1]]
    /\ UNCHANGED <<sand, rot, crit, edits>>

ElemToggle ==
    /\ ~panicked /\ edits < MaxElemEdits
    /\ \E x \in XCoords(elem), y \in YCoords(elem) :
          /\ elem' = Rule110_toggle(elem, x, y)
          /\ hist' = [hist EXCEPT !.op = "toggle", !.pre = elem]
    /\ edits' = edits + 1
    /\ UNCHANGED <<sand, rot, crit, panicked, steps>>

ElemClear ==
    /\ ~panicked /\ edits < MaxElemEdits
    /\ elem' = Rule110_clear(elem)
    /\ hist' = [op |-> "clear", pre |-> elem, updates |-> 0, writes |-> NoWrites(elem)]
    /\ edits' = edits + 1
    /\ UNCHANGED <<sand, rot, crit, panicked, steps>>

NextElem == ElemUpdate \/ ElemToggle \/ ElemClear

SpecElem == InitElem /\ [][NextElem]_vars

\* --------------------------------------------------------- single rotation
\* hist.twice: the last two operations were both reverse().
\* hist follows a run "N updates, reverse(), N updates" with no edit in
\* between: stage "fwd" after hist.fwd updates with reverse unset, counted
\* from the lattice hist.start; stage "back" after reverse() and hist.bwd
\* more updates; "idle" otherwise.

NoRun == [stage |-> "idle", start |-> <<>>, fwd |-> 0, bwd |-> 0]

RunAfterUpdate(self) ==
    IF ~self.reverse
    THEN IF hist.stage = "fwd"
         THEN [stage |-> "fwd", start |-> hist.start, fwd |-> hist.fwd + 1, bwd |-> 0]
         ELSE [stage |-> "fwd", start |-> self.cells, fwd |-> 1, bwd |-> 0]
    ELSE IF hist.stage = "back" /\ hist.bwd < hist.fwd
         THEN [stage |-> "back", start |-> hist.start, fwd |-> hist.fwd,
               bwd |-> hist.bwd + 1]
         ELSE NoRun

RunAfterReverse(self) ==
    IF ~self.reverse
    THEN IF hist.stage = "fwd"
         THEN [stage |-> "back", start |-> hist.start, fwd |-> hist.fwd, bwd |-> 0]
         ELSE [stage |-> "back", start |-> self.cells, fwd |-> 0, bwd |-> 0]
    ELSE NoRun

Hist(op, twice, pre, run) ==
    [op |-> op, twice |-> twice, pre |-> pre, stage |-> run.stage,
     start |-> run.start, fwd |-> run.fwd, bwd |-> run.bwd]

InitRot ==
    /\ \E d \in Dims(MaxCells) : rot = MarGrid_new_empty(d[1], d[2])
    /\ sand = IdleSand /\ elem = IdleElem /\ crit = IdleCrit
    /\ hist = Hist("new_empty", FALSE, rot, NoRun)
    /\ panicked = FALSE /\ steps = 0 /\ edits = 0

RotUpdate ==
    /\ ~panicked /\ steps < MaxSteps
    /\ steps' = steps + 1
    /\ rot' = MarGrid_update(rot)
    /\ hist' = Hist("update", FALSE, rot, RunAfterUpdate(rot))
    /\ UNCHANGED <<sand, elem, crit, panicked, edits>>

RotReverse ==
    /\ ~panicked
    /\ rot' = MarGrid_reverse(rot)
    /\ hist' = Hist("reverse", hist.op = "reverse", rot, RunAfterReverse(rot))
    /\ UNCHANGED <<sand, elem, crit, panicked, steps, edits>>

RotToggle ==
    /\ ~panicked /\ edits < MaxRotEdits
    /\ \E x \in XCoords(rot), y \in YCoords(rot) :
          /\ rot' = MarGrid_toggle(rot, x, y)
          /\ hist' = Hist("toggle", FALSE, rot, NoRun)
    /\ edits' = edits + 1
    /\ UNCHANGED <<sand, elem, crit, panicked, steps>>

RotClear ==
    /\ ~panicked /\ edits < MaxRotEdits
    /\ rot' = MarGrid_clear(rot)
    /\ hist' = Hist("clear", FALSE, rot, NoRun)
    /\ edits' = edits + 1
    /\ UNCHANGED <<sand, elem, crit, panicked, steps>>

NextRot == RotUpdate \/ RotReverse \/ RotToggle \/ RotClear

SpecRot == InitRot /\ [][NextRot]_vars

\* ---------------------------------------------------------------- Critters
\* hist.mid is the lattice between the two passes of update().

InitCrit ==
    /\ \E d \in Dims(MaxCritCells), r \in BOOLEAN :
          crit = Critters_new_empty(d[1], d[2], r)
    /\ sand = IdleSand /\ elem = IdleElem /\ rot = IdleRot
    /\ hist = [op |-> "new_empty", pre |-> crit, mid |-> crit]
    /\ panicked = FALSE /\ steps = 0 /\ edits = 0

CritUpdate ==
    /\ ~panicked /\ steps < MaxSteps
    /\ steps' = steps + 1
    /\ crit' = Critters_update(crit)
    /\ hist' = [op |-> "update", pre |-> crit, mid |-> Critters_first_pass(crit)]
    /\ UNCHANGED <<sand, elem, rot, panicked, edits>>

CritToggle ==
    /\ ~panicked /\ edits < MaxCritEdits
    /\ \E x \in XCoords(crit), y \in YCoords(crit) :
          /\ crit' = Critters_toggle(crit, x, y)
          /\ hist' = [op |-> "toggle", pre |-> crit, mid |-> crit]
    /\ edits' = edits + 1
    /\ UNCHANGED <<sand, elem, rot, panicked, steps>>

CritClear ==
    /\ ~panicked /\ edits < MaxCritEdits
    /\ crit' = Critters_clear(crit)
    /\ hist' = [op |-> "clear", pre |-> crit, mid |-> crit]
    /\ edits' = edits + 1
    /\ UNCHANGED <<sand, elem, rot, panicked, steps>>

NextCrit == CritUpdate \/ CritToggle \/ CritClear

SpecCrit == InitCrit /\ [][NextCrit]_vars

\* ------------------------------------------------ either Margolus automaton
\* One behaviour runs single rotation or Critters; the shape of hist tells
\* which (hist.stage belongs to single rotation, hist.mid to Critters).

IsRot == "stage" \in DOMAIN hist
IsCrit == "mid" \in DOMAIN hist

InitMargolus == InitRot \/ InitCrit

RotStep == IsRot /\ NextRot

CritStep == IsCrit /\ NextCrit

NextMargolus == RotStep \/ CritStep

SpecMargolus == InitMargolus /\ [][NextMargolus]_vars

\* ------------------------------------------- every operation, both buffers
\* One behaviour runs the sandpile or the elementary automaton (hist.engine)
\* with all its operations: update, clear, randomize, set_pile or toggle,
\* set_line.  hist keeps the last operation and the width and height the
\* lattice had before it.

\* The u32 values randomize() draws for a pile, and None for a pile left alone.
RandomDraws == {None, 4, 67}

BufHist(engine, op, self) ==
    [engine |-> engine, op |-> op, width |-> self.width, height |-> self.height]

InitBuffers ==
    /\ \E d \in Dims(MaxBufCells) :
          \/ /\ sand = SandPiles_new_empty(d[1], d[2])
             /\ elem = IdleElem
             /\ hist = BufHist("sand", "new_empty", sand)
          \/ /\ elem = Rule110_new_empty(d[1], d[2])
             /\ sand = IdleSand
             /\ hist = BufHist("elem", "new_empty", elem)
    /\ rot = IdleRot /\ crit = IdleCrit
    /\ panicked = FALSE /\ steps = 0 /\ edits = 0

BufSandUpdate ==
    /\ hist.engine = "sand" /\ ~panicked /\ steps < MaxBufSteps
    /\ steps' = steps + 1
    /\ IF SandPiles_update_panics(sand)
       THEN /\ panicked' = TRUE
            /\ sand' = sand
            /\ hist' = BufHist("sand", "panic", sand)
       ELSE /\ panicked' = FALSE
            /\ sand' = SandPiles_update(sand)
            /\ hist' = BufHist("sand", "update", sand)
    /\ UNCHANGED <<elem, rot, crit, edits>>

BufSandClear ==
    /\ hist.engine = "sand" /\ ~panicked /\ edits < MaxBufEdits
    /\ sand' = SandPiles_clear(sand)
    /\ hist' = BufHist("sand", "clear", sand)
    /\ edits' = edits + 1
    /\ UNCHANGED <<elem, rot, crit, panicked, steps>>

BufSandRandomize ==
    /\ hist.engine = "sand" /\ ~panicked /\ edits < MaxBufEdits
    /\ \E draw \in [DOMAIN sand.piles -> RandomDraws] :
          sand' = SandPiles_randomize(sand, draw)
    /\ hist' = BufHist("sand", "randomize", sand)
    /\ edits' = edits + 1
    /\ UNCHANGED <<elem, rot, crit, panicked, steps>>

BufSandSetPile ==
    /\ hist.engine = "sand" /\ ~panicked /\ edits < MaxBufEdits
    /\ \E x \in XCoords(sand), y \in YCoords(sand) :
          sand' = SandPiles_set_pile(sand, x, y)
    /\ hist' = BufHist("sand", "set_pile", sand)
    /\ edits' = edits + 1
    /\ UNCHANGED <<elem, rot, crit, panicked, steps>>

BufSandSetLine ==
    /\ hist.engine = "sand" /\ ~panicked /\ edits < MaxBufEdits
    /\ \E x0 \in XCoords(sand), y0 \in YCoords(sand),
          x1 \in XCoords(sand), y1 \in YCoords(sand) :
          \E written \in set_line_writes(sand, x0, y0, x1, y1) :
             sand' = SandPiles_set_line(sand, written)
    /\ hist' = BufHist("sand", "set_line", sand)
    /\ edits' = edits + 1
    /\ UNCHANGED <<elem, rot, crit, panicked, steps>>

BufElemUpdate ==
    /\ hist.engine = "elem" /\ ~panicked /\ steps < MaxBufSteps
    /\ steps' = steps + 1
    /\ IF Rule110_update_panics(elem)
       THEN /\ panicked' = TRUE
            /\ elem' = elem
            /\ hist' = BufHist("elem", "panic", elem)
       ELSE /\ panicked' = FALSE
            /\ elem' = Rule110_update(elem)
            /\ hist' = BufHist("elem", "update", elem)
    /\ UNCHANGED <<sand, rot, crit, edits>>

BufElemClear ==
    /\ hist.engine = "elem" /\ ~panicked /\ edits < MaxBufEdits
    /\ elem' = Rule110_clear(elem)
    /\ hist' = BufHist("elem", "clear", elem)
    /\ edits' = edits + 1
    /\ UNCHANGED <<sand, rot, crit, panicked, steps>>

BufElemRandomize ==
    /\ hist.engine = "elem" /\ ~panicked /\ edits < MaxBufEdits
    /\ \E draw \in [DOMAIN elem.cells -> BOOLEAN] :
          elem' = Rule110_randomize(elem, draw)
    /\ hist' = BufHist("elem", "randomize", elem)
    /\ edits' = edits + 1
    /\ UNCHANGED <<sand, rot, crit, panicked, steps>>

BufElemToggle ==
    /\ hist.engine = "elem" /\ ~panicked /\ edits < MaxBufEdits
    /\ \E x \in XCoords(elem), y \in YCoords(elem) :
          elem' = Rule110_toggle(elem, x, y)
    /\ hist' = BufHist("elem", "toggle", elem)
    /\ edits' = edits + 1
    /\ UNCHANGED <<sand, rot, crit, panicked, steps>>

BufElemSetLine ==
    /\ hist.engine = "elem" /\ ~panicked /\ edits < MaxBufEdits
    /\ \E x0 \in XCoords(elem), y0 \in YCoords(elem),
          x1 \in XCoords(elem), y1 \in YCoords(elem), alive \in BOOLEAN :
          \E written \in set_line_writes(elem, x0, y0, x1, y1) :
             elem' = Rule110_set_line(elem, written, alive)
    /\ hist' = BufHist("elem", "set_line", elem)
    /\ edits' = edits + 1
    /\ UNCHANGED <<sand, rot, crit, panicked, steps>>

NextBuffers ==
    \/ BufSandUpdate \/ BufSandClear \/ BufSandRandomize
    \/ BufSandSetPile \/ BufSandSetLine
    \/ BufElemUpdate \/ BufElemClear \/ BufElemRandomize
    \/ BufElemToggle \/ BufElemSetLine

SpecBuffers == InitBuffers /\ [][NextBuffers]_vars

\* ------------------------------------------------------------ construction
\* One call of new_empty of one of the three engines, with width and height
\* drawn from UsizeInputs.  Before the call there is no lattice (hist.op is
\* "start"); a call that panics makes none.  A Vec of more than
\* MaxSide * MaxSide cells is not built here: width and height whose product
\* fits a usize and exceeds that are left out.

UsizeInputs ==
    {usize(n) : n \in 0..MaxSide} \cup {usize_pow2(32), usize_pow2(63), usize_MAX}

Allocatable(size) == usize_small(size) /\ usize_value(size) <= MaxSide * MaxSide

NewHist(op, engine, width, height) ==
    [op |-> op, engine |-> engine, width |-> width, height |-> height]

InitNew ==
    /\ sand = IdleSand /\ elem = IdleElem /\ rot = IdleRot /\ crit = IdleCrit
    /\ hist = NewHist("start", "none", usize(0), usize(0))
    /\ panicked = FALSE /\ steps = 0 /\ edits = 0

NewSand ==
    /\ hist.op = "start"
    /\ \E width \in UsizeInputs, height \in UsizeInputs :
          IF new_empty_panics(width, height)
          THEN /\ panicked' = TRUE
               /\ sand' = sand
               /\ hist' = NewHist("panic", "sand", width, height)
          ELSE /\ Allocatable(new_empty_size(width, height))
               /\ panicked' = FALSE
               /\ sand' = SandPiles_new_empty(usize_value(width), usize_value(height))
               /\ hist' = NewHist("new_empty", "sand", width, height)
    /\ UNCHANGED <<elem, rot, crit, steps, edits>>

NewElem ==
    /\ hist.op = "start"
    /\ \E width \in UsizeInputs, height \in UsizeInputs :
          IF new_empty_panics(width, height)
          THEN /\ panicked' = TRUE
               /\ elem' = elem
               /\ hist' = NewHist("panic", "elem", width, height)
          ELSE /\ Allocatable(new_empty_size(width, height))
               /\ panicked' = FALSE
               /\ elem' = Rule110_new_empty(usize_value(width), usize_value(height))
               /\ hist' = NewHist("new_empty", "elem", width, height)
    /\ UNCHANGED <<sand, rot, crit, steps, edits>>

NewRot ==
    /\ hist.op = "start"
    /\ \E width \in UsizeInputs, height \in UsizeInputs :
          IF new_empty_panics(width, height)
          THEN /\ panicked' = TRUE
               /\ rot' = rot
               /\ hist' = NewHist("panic", "rot", width, height)
          ELSE /\ Allocatable(new_empty_size(width, height))
               /\ panicked' = FALSE
               /\ rot' = MarGrid_new_empty(usize_value(width), usize_value(height))
               /\ hist' = NewHist("new_empty", "rot", width, height)
    /\ UNCHANGED <<sand, elem, crit, steps, edits>>

NextNew == NewSand \/ NewElem \/ NewRot

SpecNew == InitNew /\ [][NextNew]_vars

\* -------------------------------------------------------------- totalistic
\* The totalistic engine, kept in the variable crit with its rule table:
\* built empty with a rule code, edited by toggle and stepped by update.

RuleCodes == {0, 8, 511}

InitTot ==
    /\ \E d \in Dims(MaxCells), code \in RuleCodes :
          crit = [cells |-> Vec(d[1] * d[2], FALSE),
                  scratch_cells |-> Vec(d[1] * d[2], FALSE),
                  width |-> d[1], height |-> d[2], rule |-> RuleTable(code)]
    /\ sand = IdleSand /\ elem = IdleElem /\ rot = IdleRot
    /\ hist = [op |-> "new_empty", pre |-> crit]
    /\ panicked = FALSE /\ steps = 0 /\ edits = 0

TotToggle ==
    /\ edits < MaxTotEdits
    /\ \E x \in 0..(crit.width - 1), y \in 0..(crit.height - 1) :
          crit' = MarGrid_toggle(crit, x, y)
    /\ hist' = [op |-> "toggle", pre |-> crit]
    /\ edits' = edits + 1
    /\ UNCHANGED <<sand, elem, rot, panicked, steps>>

TotUpdate ==
    /\ steps < MaxTotSteps
    /\ crit' = Totalistic_update(crit)
    /\ hist' = [op |-> "update", pre |-> crit]
    /\ steps' = steps + 1
    /\ UNCHANGED <<sand, elem, rot, panicked, edits>>

NextTot == TotToggle \/ TotUpdate

SpecTot == InitTot /\ [][NextTot]_vars

\* -------------------------------------------------------------- rule codes
\* The construction of a rule-table automaton from a rule code, and the
\* life of the lattice it builds, kept in the variable crit.  hist keeps
\* the family and the code of the construction and the condition it raised.

RuleFamilies == {"totalistic", "outer_totalistic"}

\* Rule codes the caller supplies: both ends of the valid range of each
\* family, the bound and values above it.
RuleCodeInputs == {0, 8, 2 ^ 9 - 1, 2 ^ 9, 2 ^ 9 + 1,
                   2 ^ 18 - 1, 2 ^ 18, 2 ^ 18 + 1}

InitRule ==
    /\ crit = NoLattice
    /\ sand = IdleSand /\ elem = IdleElem /\ rot = IdleRot
    /\ hist = [op |-> "start", family |-> "none", code |-> 0,
               result |-> "none", pre |-> NoLattice]
    /\ panicked = FALSE /\ steps = 0 /\ edits = 0

RuleNew ==
    /\ hist.op = "start"
    /\ \E family \in RuleFamilies, code \in RuleCodeInputs,
          d \in Dims(MaxRuleCells) :
          LET r == Rule_new(family, code, d[1], d[2])
          IN /\ crit' = r.life
             /\ hist' = [op |-> "new", family |-> family, code |-> code,
                         result |-> r.result, pre |-> crit]
    /\ UNCHANGED <<sand, elem, rot, panicked, steps, edits>>

\* toggle and update are methods of the lattice: there is one to call
\* them on only after a construction that raised no condition.
RuleToggle ==
    /\ hist.result = "Ok" /\ edits < MaxRuleEdits
    /\ \E x \in 0..(crit.width - 1), y \in 0..(crit.height - 1) :
          crit' = MarGrid_toggle(crit, x, y)
    /\ hist' = [hist EXCEPT !.op = "toggle", !.pre = crit]
    /\ edits' = edits + 1
    /\ UNCHANGED <<sand, elem, rot, panicked, steps>>

RuleUpdate ==
    /\ hist.result = "Ok" /\ steps < MaxRuleSteps
    /\ crit' = IF hist.family = "totalistic" THEN Totalistic_update(crit)
               ELSE OuterTotalistic_update(crit)
    /\ hist' = [hist EXCEPT !.op = "update", !.pre = crit]
    /\ steps' = steps + 1
    /\ UNCHANGED <<sand, elem, rot, panicked, edits>>

NextRule == RuleNew \/ RuleToggle \/ RuleUpdate

SpecRule == InitRule /\ [][NextRule]_vars

\* ------------------------------------------- single rotation, every operation
\* Every operation the event loop of single_rotation.rs calls on the
\* lattice.  hist keeps the last operation, the flags the lattice had before
\* it and whether it changed a cell.

FlagsHist(op, pre, post) ==
    [op |-> op, phase |-> pre.phase, reverse |-> pre.reverse,
     changed |-> post.cells # pre.cells]

InitFlags ==
    /\ \E d \in {e \in (1..MaxFlagSide) \X (1..MaxFlagSide) :
                     e[1] * e[2] <= MaxFlagCells} :
          rot = MarGrid_new_empty(d[1], d[2])
    /\ sand = IdleSand /\ elem = IdleElem /\ crit = IdleCrit
    /\ hist = FlagsHist("new_empty", rot, rot)
    /\ panicked = FALSE /\ steps = 0 /\ edits = 0

FlagsUpdate ==
    /\ steps < MaxFlagSteps
    /\ rot' = MarGrid_update(rot)
    /\ hist' = FlagsHist("update", rot, rot')
    /\ steps' = steps + 1
    /\ UNCHANGED <<sand, elem, crit, panicked, edits>>

FlagsReverse ==
    /\ edits < MaxFlagEdits
    /\ rot' = MarGrid_reverse(rot)
    /\ hist' = FlagsHist("reverse", rot, rot')
    /\ edits' = edits + 1
    /\ UNCHANGED <<sand, elem, crit, panicked, steps>>

FlagsRandomize ==
    /\ edits < MaxFlagEdits
    /\ \E draw \in [DOMAIN rot.cells -> BOOLEAN] :
          rot' = MarGrid_randomize(rot, draw)
    /\ hist' = FlagsHist("randomize", rot, rot')
    /\ edits' = edits + 1
    /\ UNCHANGED <<sand, elem, crit, panicked, steps>>

FlagsClear ==
    /\ edits < MaxFlagEdits
    /\ rot' = MarGrid_clear(rot)
    /\ hist' = FlagsHist("clear", rot, rot')
    /\ edits' = edits + 1
    /\ UNCHANGED <<sand, elem, crit, panicked, steps>>

FlagsToggle ==
    /\ edits < MaxFlagEdits
    /\ \E x \in XCoords(rot), y \in YCoords(rot) :
          rot' = MarGrid_toggle(rot, x, y)
    /\ hist' = FlagsHist("toggle", rot, rot')
    /\ edits' = edits + 1
    /\ UNCHANGED <<sand, elem, crit, panicked, steps>>

FlagsSetLine ==
    /\ edits < MaxFlagEdits
    /\ \E x0 \in XCoords(rot), y0 \in YCoords(rot),
          x1 \in XCoords(rot), y1 \in YCoords(rot), alive \in BOOLEAN :
          \E line \in set_line_lines(rot, x0, y0, x1, y1) :
             rot' = MarGrid_set_line(rot, set_line_loop(rot, line, 1), alive)
    /\ hist' = FlagsHist("set_line", rot, rot')
    /\ edits' = edits + 1
    /\ UNCHANGED <<sand, elem, crit, panicked, steps>>

\* draw(&self, screen) takes the lattice by shared reference.
FlagsDraw ==
    /\ hist.op # "draw"
    /\ Len(MarGrid_draw(rot, 4 * rot.width * rot.height)) = rot.width * rot.height
    /\ rot' = rot
    /\ hist' = FlagsHist("draw", rot, rot')
    /\ UNCHANGED <<sand, elem, crit, panicked, steps, edits>>

NextFlags ==
    \/ FlagsUpdate \/ FlagsReverse \/ FlagsRandomize \/ FlagsClear
    \/ FlagsToggle \/ FlagsSetLine \/ FlagsDraw

SpecFlags == InitFlags /\ [][NextFlags]_vars

\* ------------------------------------------------------------ edit commands
\* One behaviour runs the edit commands and draw() of the sandpile, the
\* elementary automaton or the single rotation automaton (hist.engine) on a
\* small lattice.  hist keeps the last call: its name, its arguments, the
\* lattice before it, what it returned or drew, and the number of edits
\* other than point edits so far.  The event loop redraws after every round
\* of input; draw() changes nothing, and the machine takes the edits other
\* than point edits from the state after a draw() (AfterDraw).

EditDims == {d \in (1..MaxEditSide) \X (1..MaxEditSide) : d[1] * d[2] <= MaxEditCells}

AfterDraw == hist.op = "draw"

EditHist(engine, op, pre, args, out, bulk) ==
    [engine |-> engine, op |-> op, pre |-> pre, args |-> args, out |-> out,
     bulk |-> bulk]

\* The lattice of the running engine.
EditSelf == CASE hist.engine = "sand" -> sand
              [] hist.engine = "elem" -> elem
              [] hist.engine = "rot" -> rot

\* The variables take the lattice s of the running engine.
EditStore(s) ==
    /\ sand' = IF hist.engine = "sand" THEN s ELSE sand
    /\ elem' = IF hist.engine = "elem" THEN s ELSE elem
    /\ rot' = IF hist.engine = "rot" THEN s ELSE rot
    /\ crit' = crit

InitEdit ==
    /\ \E d \in EditDims, e \in {"sand", "elem", "rot"} :
          /\ sand = IF e = "sand" THEN SandPiles_new_empty(d[1], d[2]) ELSE IdleSand
          /\ elem = IF e = "elem" THEN Rule110_new_empty(d[1], d[2]) ELSE IdleElem
          /\ rot = IF e = "rot" THEN MarGrid_new_empty(d[1], d[2]) ELSE IdleRot
          /\ hist = EditHist(e, "new_empty", <<>>, <<>>, <<>>, 0)
    /\ crit = IdleCrit
    /\ panicked = FALSE /\ steps = 0 /\ edits = 0

\* set_pile(x, y) of the sandpile, toggle(x, y) of the two others.
EditPoint ==
    /\ ~panicked /\ edits < MaxPointEdits
    /\ \E x \in XCoords(EditSelf), y \in YCoords(EditSelf) :
          CASE hist.engine = "sand" ->
                 /\ EditStore(SandPiles_set_pile(sand, x, y))
                 /\ hist' = EditHist("sand", "set_pile", sand, <<x, y>>, TRUE, hist.bulk)
            [] hist.engine = "elem" ->
                 /\ EditStore(Rule110_toggle(elem, x, y))
                 /\ hist' = EditHist("elem", "toggle", elem, <<x, y>>,
                                     Rule110_toggle_returns(elem, x, y), hist.bulk)
            [] hist.engine = "rot" ->
                 /\ EditStore(MarGrid_toggle(rot, x, y))
                 /\ hist' = EditHist("rot", "toggle", rot, <<x, y>>,
                                     MarGrid_toggle_returns(rot, x, y), hist.bulk)
    /\ edits' = edits + 1
    /\ UNCHANGED <<panicked, steps>>

\* set_line(x0, y0, x1, y1[, alive]); hist.out is the line it walked.
EditLine ==
    /\ ~panicked /\ hist.bulk < MaxBulkEdits /\ AfterDraw
    /\ \E x0 \in XCoords(EditSelf), y0 \in YCoords(EditSelf),
          x1 \in XCoords(EditSelf), y1 \in YCoords(EditSelf), alive \in BOOLEAN :
          \E line \in set_line_lines(EditSelf, x0, y0, x1, y1) :
             LET written == set_line_loop(EditSelf, line, 1)
             IN CASE hist.engine = "sand" ->
                       /\ alive
                       /\ EditStore(SandPiles_set_line(sand, written))
                       /\ hist' = EditHist("sand", "set_line", sand,
                                           <<x0, y0, x1, y1, alive>>, line, hist.bulk + 1)
                  [] hist.engine = "elem" ->
                       /\ EditStore(Rule110_set_line(elem, written, alive))
                       /\ hist' = EditHist("elem", "set_line", elem,
                                           <<x0, y0, x1, y1, alive>>, line, hist.bulk + 1)
                  [] hist.engine = "rot" ->
                       /\ EditStore(MarGrid_set_line(rot, written, alive))
                       /\ hist' = EditHist("rot", "set_line", rot,
                                           <<x0, y0, x1, y1, alive>>, line, hist.bulk + 1)
    /\ UNCHANGED <<panicked, steps, edits>>

\* The draws of randomize() for one pile: the uniform draw in hundredths and
\* the u32 drawn for the grains.
FillDraws == {<<6, 68>>, <<7, 3>>}

\* randomize() of the sandpile; hist.args is the draws, pile by pile.
EditRandomize ==
    /\ ~panicked /\ hist.bulk < MaxBulkEdits /\ AfterDraw /\ hist.engine = "sand"
    /\ \E draws \in [DOMAIN sand.piles -> FillDraws] :
          /\ EditStore(SandPiles_randomize(sand,
                 [i \in DOMAIN sand.piles |-> SandPiles_fill(draws[i][1], draws[i][2])]))
          /\ hist' = EditHist("sand", "randomize", sand, draws, <<>>, hist.bulk + 1)
    /\ UNCHANGED <<panicked, steps, edits>>

\* center_pile() of the sandpile.
EditCenterPile ==
    /\ ~panicked /\ hist.bulk < MaxBulkEdits /\ AfterDraw /\ hist.engine = "sand"
    /\ IF SandPiles_center_pile_panics(sand)
       THEN /\ panicked' = TRUE
            /\ EditStore(sand)
            /\ hist' = EditHist("sand", "panic", sand, <<>>, <<>>, hist.bulk + 1)
       ELSE /\ panicked' = FALSE
            /\ EditStore(SandPiles_center_pile(sand))
            /\ hist' = EditHist("sand", "center_pile", sand, <<>>, <<>>, hist.bulk + 1)
    /\ UNCHANGED <<steps, edits>>

\* draw(screen) on a screen of four bytes per cell; hist.out is the writes.
EditDraw ==
    /\ ~panicked /\ ~AfterDraw
    /\ EditStore(EditSelf)
    /\ hist' = CASE hist.engine = "sand" ->
                     EditHist("sand", "draw", sand, <<>>,
                              SandPiles_draw(sand, 4 * sand.width * sand.height), hist.bulk)
                 [] hist.engine = "elem" ->
                     EditHist("elem", "draw", elem, <<>>,
                              Rule110_draw(elem, 4 * elem.width * elem.height), hist.bulk)
                 [] hist.engine = "rot" ->
                     EditHist("rot", "draw", rot, <<>>,
                              MarGrid_draw(rot, 4 * rot.width * rot.height), hist.bulk)
    /\ UNCHANGED <<panicked, steps, edits>>

NextEdit == EditPoint \/ EditLine \/ EditRandomize \/ EditCenterPile \/ EditDraw

SpecEdit == InitEdit /\ [][NextEdit]_vars

\* ------------------------------------------------------ index computations
\* The index functions of the three engines on one lattice size: each
\* action calls one of them at an in-bounds (x, y) and hist keeps the call
\* and the indices it computed.

InitIndex ==
    /\ \E d \in Dims(MaxCells) :
          /\ sand = SandPiles_new_empty(d[1], d[2])
          /\ elem = Rule110_new_empty(d[1], d[2])
          /\ rot = MarGrid_new_empty(d[1], d[2])
    /\ crit = IdleCrit
    /\ hist = [op |-> "new_empty", x |-> 0, y |-> 0, idx |-> <<>>]
    /\ panicked = FALSE /\ steps = 0 /\ edits = 0

IndexSand ==
    /\ \E x \in 0..(sand.width - 1), y \in 0..(sand.height - 1) :
          hist' = [op |-> "count_tall_neibs", x |-> x, y |-> y,
                   idx |-> SandPiles_neib_idx(sand, x, y)]
    /\ UNCHANGED <<sand, elem, rot, crit, panicked, steps, edits>>

IndexElem ==
    /\ \E x \in 0..(elem.width - 1), y \in 0..(elem.height - 1) :
          hist' = [op |-> "neibs", x |-> x, y |-> y,
                   idx |-> Rule110_neibs_idx(elem, x, y)]
    /\ UNCHANGED <<sand, elem, rot, crit, panicked, steps, edits>>

IndexRot ==
    /\ \E x \in 0..(rot.width - 1), y \in 0..(rot.height - 1) :
          hist' = [op |-> "count_big_cell", x |-> x, y |-> y,
                   idx |-> MarGrid_count_big_cell(rot, x, y).cell_pos]
    /\ UNCHANGED <<sand, elem, rot, crit, panicked, steps, edits>>

\* grid_idx at an isize (x, y), and idx_grid of the index when there is one.
IndexGrid ==
    /\ \E x \in XCoords(rot), y \in YCoords(rot) :
          hist' = [op |-> "grid_idx", x |-> x, y |-> y,
                   idx |-> IF grid_idx(rot, x, y) = None THEN <<None>>
                           ELSE <<grid_idx(rot, x, y)>>
                                \o idx_grid(rot, grid_idx(rot, x, y))]
    /\ UNCHANGED <<sand, elem, rot, crit, panicked, steps, edits>>

\* count_big_cell of multicolor.rs and of critters.rs on a lattice of the
\* same width and height.
IndexBlock ==
    /\ \E x \in 0..(rot.width - 1), y \in 0..(rot.height - 1) :
          \/ hist' = [op |-> "multicolor::count_big_cell", x |-> x, y |-> y,
                      idx |-> Critters_cell_pos(rot, x, y)]
          \/ hist' = [op |-> "critters::count_big_cell", x |-> x, y |-> y,
                      idx |-> CrittersRs_cell_pos(rot, x, y)]
    /\ UNCHANGED <<sand, elem, rot, crit, panicked, steps, edits>>

NextIndex == IndexSand \/ IndexElem \/ IndexRot \/ IndexGrid \/ IndexBlock

SpecIndex == InitIndex /\ [][NextIndex]_vars

(***************************************************************************)
(*                              Properties                                  *)
(* The properties name cells by coordinates on the torus, computed here by  *)
(* modular arithmetic and not by the operators above.                       *)
(***************************************************************************)

\* Index of the cell at (x mod w, y mod h).
Torus(w, h, x, y) == ((x + w) % w) + ((y + h) % h) * w

\* Number of live cells of a boolean lattice.
Live(c) == Cardinality({i \in DOMAIN c : c[i]})

\* Output of elementary rule 110 for the triple (a, b, c): bit 4a+2b+c of 110.
Rule110Out(a, b, c) == ((110 \div (2 ^ (4 * Bit(a) + 2 * Bit(b) + Bit(c)))) % 2) = 1

\* The eight entries of the rule table, as listed.
Rule110Listed(a, b, c) ==
    \/ (a /\ b /\ ~c) \/ (a /\ ~b /\ c) \/ (~a /\ b /\ c)
    \/ (~a /\ b /\ ~c) \/ (~a /\ ~b /\ c)

\* ---------------------------------------------------------------- C1
ToppleRest(g) == IF g >= 4 THEN g - 4 ELSE g

TallNeighbours(p, w, h, x, y) ==
    Bit(p[Torus(w, h, x, y - 1)] >= 4) + Bit(p[Torus(w, h, x - 1, y)] >= 4)
    + Bit(p[Torus(w, h, x + 1, y)] >= 4) + Bit(p[Torus(w, h, x, y + 1)] >= 4)

\* C1: after a sandpile update every cell holds (g - 4 if g >= 4, else g)
\* plus the number of its four toroidal orthogonal neighbours that held at
\* least 4 grains, g and the neighbours all taken from the lattice as it was
\* before the update.
C1_SynchronousToppling ==
    hist.op = "update" =>
        \A x \in 0..(sand.width - 1), y \in 0..(sand.height - 1) :
            sand.piles[x + y * sand.width]
                = ToppleRest(hist.pre.piles[x + y * sand.width])
                  + TallNeighbours(hist.pre.piles, sand.width, sand.height, x, y)

\* An update in which a toppling cell of column 0 gave a grain across the
\* edge to column width-1, which no other neighbour fed, on a lattice wide
\* enough for the left and right neighbours to differ.
C1_Witness ==
    /\ hist.op = "update"
    /\ sand.width >= 3
    /\ \E y \in 0..(sand.height - 1) :
          /\ hist.pre.piles[0 + y * sand.width] >= 4
          /\ TallNeighbours(hist.pre.piles, sand.width, sand.height,
                            sand.width - 1, y) = 1
          /\ sand.piles[(sand.width - 1) + y * sand.width]
                = hist.pre.piles[(sand.width - 1) + y * sand.width] + 1

\* ---------------------------------------------------------------- C2
\* C2: N updates, reverse(), N more updates, with no edit in between, leave
\* every cell of the single-rotation lattice as it was before the first
\* update, for every N, width and height.
C2_Reversible ==
    (hist.stage = "back" /\ hist.bwd = hist.fwd) => rot.cells = hist.start

\* A completed run of at least two updates each way whose last backward
\* update moved a cell.
C2_Witness ==
    /\ hist.stage = "back" /\ hist.bwd = hist.fwd /\ hist.fwd >= 2
    /\ hist.op = "update"
    /\ hist.pre.cells # rot.cells

\* ---------------------------------------------------------------- C3
\* C3: after update() with active_row = y > 0, cell (x, y) of the current
\* lattice is the rule-110 output for the cells ((x-1) mod width, y-1),
\* (x, y-1), ((x+1) mod width, y-1) of the current lattice before the update.
C3_RowFromRowAbove ==
    (hist.op = "update" /\ hist.pre.active_line > 0) =>
        LET w == elem.width
            h == elem.height
            y == hist.pre.active_line
        IN \A x \in 0..(w - 1) :
              elem.cells[x + y * w]
                  = Rule110Out(hist.pre.cells[Torus(w, h, x - 1, y - 1)],
                               hist.pre.cells[Torus(w, h, x, y - 1)],
                               hist.pre.cells[Torus(w, h, x + 1, y - 1)])

\* ---------------------------------------------------------------- C4
\* C4: update() with active_row = y > 0 changes only row y of the current
\* lattice; every other row of the current lattice is as before.
C4_OnlyActiveRowChanges ==
    (hist.op = "update" /\ hist.pre.active_line > 0) =>
        \A idx \in DOMAIN elem.cells :
            (idx \div elem.width # hist.pre.active_line)
                => elem.cells[idx] = hist.pre.cells[idx]

\* ---------------------------------------------------------------- C5
\* C5: on a lattice of height >= 2, after k update() calls since
\* construction or clear(), active_row is k+1 while k < height-1 and 0 from
\* then on; rows 1..k (at most height-1) have been written once each, the
\* other rows and row 0 never.
C5_OneShotSweep ==
    elem.height >= 2 =>
        LET k == hist.updates
            done == IF k < elem.height - 1 THEN k ELSE elem.height - 1
        IN /\ elem.active_line = (IF k < elem.height - 1 THEN k + 1 ELSE 0)
           /\ \A r \in 0..(elem.height - 1) :
                 hist.writes[r] = (IF 1 <= r /\ r <= done THEN 1 ELSE 0)

\* The sweep of a lattice of height 3 is over and update() has been called
\* again since.
C5_Witness ==
    /\ elem.height >= 3
    /\ hist.op = "update"
    /\ hist.updates > elem.height - 1
    /\ elem.active_line = 0

\* ---------------------------------------------------------------- C6
\* C6: update() with active_row = 0 leaves the current lattice, the scratch
\* buffer and active_row as they were.
C6_FrozenUpdateIsNoOp ==
    (hist.op = "update" /\ hist.pre.active_line = 0) => elem = hist.pre

\* An update at active_row 0 while the two buffers differ, so that a swap
\* would show.
C6_Witness ==
    /\ hist.op = "update"
    /\ hist.pre.active_line = 0
    /\ hist.pre.cells # hist.pre.scratch_cells

\* ---------------------------------------------------------------- C7
\* C7: the cell rule is rule 110: the state update() writes for a triple
\* (a, b, c) is alive iff bit 4a+2b+c of 110 is set, which is the listed
\* table, whatever the cell itself and the scratch cell held before.
C7_Rule110Table ==
    (hist.op = "update" /\ hist.pre.active_line > 0) =>
        \A x \in 0..(elem.width - 1) :
            LET t == Rule110_neibs(hist.pre, x, hist.pre.active_line)
                out == elem.cells[x + hist.pre.active_line * elem.width]
            IN /\ out = Rule110Out(t[1], t[2], t[3])
               /\ out = Rule110Listed(t[1], t[2], t[3])

\* An update that applied the rule to (T,F,F) on a cell that was itself
\* alive, and left it dead.
C7_Witness ==
    /\ hist.op = "update" /\ hist.pre.active_line > 0
    /\ \E x \in 0..(elem.width - 1) :
          /\ Rule110_neibs(hist.pre, x, hist.pre.active_line) = <<TRUE, FALSE, FALSE>>
          /\ hist.pre.cells[x + hist.pre.active_line * elem.width]
          /\ ~elem.cells[x + hist.pre.active_line * elem.width]

\* ------------------------------------------------------- Margolus blocks
\* The anchors of a pass: even (x, y) for off = 0, odd for off = 1.
Anchors(w, h, off) ==
    {<<2 * i + off, 2 * j + off>> : i \in 0..((w \div 2) - 1), j \in 0..((h \div 2) - 1)}

\* The cells of the block anchored at (x, y): top-left, top-right,
\* bottom-right, bottom-left.
TL(w, h, x, y) == Torus(w, h, x, y)
TR(w, h, x, y) == Torus(w, h, x + 1, y)
BR(w, h, x, y) == Torus(w, h, x + 1, y + 1)
BL(w, h, x, y) == Torus(w, h, x, y + 1)

BlockLive(c, w, h, x, y) ==
    Bit(c[TL(w, h, x, y)]) + Bit(c[TR(w, h, x, y)])
    + Bit(c[BR(w, h, x, y)]) + Bit(c[BL(w, h, x, y)])

BlockSame(b, a, w, h, x, y) ==
    /\ a[TL(w, h, x, y)] = b[TL(w, h, x, y)]
    /\ a[TR(w, h, x, y)] = b[TR(w, h, x, y)]
    /\ a[BR(w, h, x, y)] = b[BR(w, h, x, y)]
    /\ a[BL(w, h, x, y)] = b[BL(w, h, x, y)]

\* ---------------------------------------------------------------- C8
\* C8 as claimed: on a lattice of any width and height holding exactly one
\* live cell, update_grid_1 followed by update_grid_2 leaves the number of
\* live cells as it was.
C8_OneCellConserved_AnySize ==
    (hist.op = "update" /\ ~crit.reverse /\ Live(hist.pre.cells) = 1)
        => Live(crit.cells) = Live(hist.pre.cells)

\* C8 amended: on a lattice of even width and even height holding exactly
\* one live cell, update_grid_1 followed by update_grid_2 leaves the number
\* of live cells as it was.
C8_OneCellConserved_EvenSize ==
    (/\ hist.op = "update" /\ ~crit.reverse /\ Live(hist.pre.cells) = 1
     /\ crit.width % 2 = 0 /\ crit.height % 2 = 0)
        => Live(crit.cells) = Live(hist.pre.cells)

\* A full cycle from one live cell on a 4 x 4 lattice, whose half-step count
\* differs from 1.
C8_Witness ==
    /\ hist.op = "update" /\ ~crit.reverse /\ Live(hist.pre.cells) = 1
    /\ crit.width = 4 /\ crit.height = 4
    /\ Live(hist.mid.cells) # 1
    /\ Live(crit.cells) = 1

\* ---------------------------------------------------------------- C9
\* The Critters transform of the block anchored at (x, y), from lattice b
\* to lattice a.
CrittersBlock(b, a, w, h, x, y) ==
    LET n == BlockLive(b, w, h, x, y)
    IN IF n = 2 THEN BlockSame(b, a, w, h, x, y)
       ELSE IF n \in {0, 1, 4}
       THEN /\ a[TL(w, h, x, y)] = ~b[TL(w, h, x, y)]
            /\ a[TR(w, h, x, y)] = ~b[TR(w, h, x, y)]
            /\ a[BR(w, h, x, y)] = ~b[BR(w, h, x, y)]
            /\ a[BL(w, h, x, y)] = ~b[BL(w, h, x, y)]
       ELSE /\ a[TL(w, h, x, y)] = ~b[BR(w, h, x, y)]
            /\ a[TR(w, h, x, y)] = ~b[BL(w, h, x, y)]
            /\ a[BR(w, h, x, y)] = ~b[TL(w, h, x, y)]
            /\ a[BL(w, h, x, y)] = ~b[TR(w, h, x, y)]

CritFirstOff == IF crit.reverse THEN 1 ELSE 0

Clockwise(b, a, w, h, x, y) ==
    /\ a[TR(w, h, x, y)] = b[TL(w, h, x, y)]
    /\ a[BR(w, h, x, y)] = b[TR(w, h, x, y)]
    /\ a[BL(w, h, x, y)] = b[BR(w, h, x, y)]
    /\ a[TL(w, h, x, y)] = b[BL(w, h, x, y)]

\* The live cell moves top-left -> bottom-left -> bottom-right -> top-right.
CounterClockwise(b, a, w, h, x, y) ==
    /\ a[BL(w, h, x, y)] = b[TL(w, h, x, y)]
    /\ a[BR(w, h, x, y)] = b[BL(w, h, x, y)]
    /\ a[TR(w, h, x, y)] = b[BR(w, h, x, y)]
    /\ a[TL(w, h, x, y)] = b[TR(w, h, x, y)]

\* The pass the last update() ran: update_grid_1 when phase became true.
RotOff == IF rot.phase THEN 0 ELSE 1

\* C10 as claimed: a block with exactly one live cell is rotated clockwise
\* when reverse is unset and counter-clockwise when it is set; a block with
\* 0, 2, 3 or 4 live cells is unchanged.
C10_RotationAsClaimed ==
    hist.op = "update" =>
        \A a \in Anchors(rot.width, rot.height, RotOff) :
            IF BlockLive(hist.pre.cells, rot.width, rot.height, a[1], a[2]) = 1
            THEN IF ~rot.reverse
                 THEN Clockwise(hist.pre.cells, rot.cells,
                                rot.width, rot.height, a[1], a[2])
                 ELSE CounterClockwise(hist.pre.cells, rot.cells,
                                       rot.width, rot.height, a[1], a[2])
            ELSE BlockSame(hist.pre.cells, rot.cells,
                           rot.width, rot.height, a[1], a[2])

\* C10 amended: a block with exactly one live cell is rotated
\* counter-clockwise when reverse is unset (the live cell moves top-left ->
\* bottom-left -> bottom-right -> top-right -> top-left) and clockwise when
\* reverse is set; a block with 0, 2, 3 or 4 live cells is unchanged.
C10_RotationAsCoded ==
    hist.op = "update" =>
        \A a \in Anchors(rot.width, rot.height, RotOff) :
            IF BlockLive(hist.pre.cells, rot.width, rot.height, a[1], a[2]) = 1
            THEN IF ~rot.reverse
                 THEN CounterClockwise(hist.pre.cells, rot.cells,
                                       rot.width, rot.height, a[1], a[2])
                 ELSE Clockwise(hist.pre.cells, rot.cells,
                                rot.width, rot.height, a[1], a[2])
            ELSE BlockSame(hist.pre.cells, rot.cells,
                           rot.width, rot.height, a[1], a[2])

\* A forward update with a block whose one live cell went from top-left to
\* bottom-left, beside a block of two that stayed.
C10_Witness ==
    /\ hist.op = "update" /\ ~rot.reverse
    /\ \E a \in Anchors(rot.width, rot.height, RotOff) :
          /\ BlockLive(hist.pre.cells, rot.width, rot.height, a[1], a[2]) = 1
          /\ hist.pre.cells[TL(rot.width, rot.height, a[1], a[2])]
          /\ rot.cells[BL(rot.width, rot.height, a[1], a[2])]
    /\ \E a \in Anchors(rot.width, rot.height, RotOff) :
          BlockLive(hist.pre.cells, rot.width, rot.height, a[1], a[2]) = 2

\* ---------------------------------------------------------------- C11
\* C11: a reverse() that directly follows a reverse() leaves the whole
\* single-rotation state (cells, phase, reverse, width, height) as it was
\* before the first of the two calls.
C11_ReverseTwiceRestores ==
    [][(hist.op = "reverse" /\ hist'.op = "reverse") => rot' = hist.pre]_vars

\* Two reverse() calls in a row on a lattice that holds a live cell and has
\* been updated.
C11_Witness ==
    /\ hist.op = "reverse" /\ hist.twice
    /\ steps > 0
    /\ \E i \in DOMAIN rot.cells : rot.cells[i]
    /\ rot.phase /\ ~rot.reverse

\* ---------------------------------------------------------------- C12
\* The cells of the blocks of the partition anchored at offset off.
InBlocks(w, h, off) ==
    UNION {{TL(w, h, a[1], a[2]), TR(w, h, a[1], a[2]),
            BR(w, h, a[1], a[2]), BL(w, h, a[1], a[2])} : a \in Anchors(w, h, off)}

\* Lattice a is lattice b with the single-rotation rule applied to every
\* block of the partition at offset off, and to nothing else.
PartitionProcessed(b, a, w, h, off, rev) ==
    /\ \A p \in Anchors(w, h, off) :
          IF BlockLive(b, w, h, p[1], p[2]) = 1
          THEN IF rev THEN Clockwise(b, a, w, h, p[1], p[2])
               ELSE CounterClockwise(b, a, w, h, p[1], p[2])
          ELSE BlockSame(b, a, w, h, p[1], p[2])
    /\ \A i \in (DOMAIN b) \ InBlocks(w, h, off) : a[i] = b[i]

\* The partition an update() from phase ph works on: the even-anchored one
\* from phase false (as on a fresh lattice), the odd-anchored one from
\* phase true.
PartitionFrom(ph) == IF ph THEN 1 ELSE 0

\* C12: every update() toggles phase once and applies the rule to one
\* partition only: the even-anchored one when it starts from phase false (a
\* fresh lattice), the odd-anchored one otherwise; an update() that directly
\* follows an update() works on the other partition than that one did.
C12_PhaseAlternation ==
    [][hist'.op = "update" =>
          /\ rot'.phase = ~rot.phase
          /\ rot'.reverse = rot.reverse
          /\ PartitionProcessed(rot.cells, rot'.cells, rot.width, rot.height,
                                PartitionFrom(rot.phase), rot.reverse)
          /\ (rot = MarGrid_new_empty(rot.width, rot.height)
                 => PartitionFrom(rot.phase) = 0)
          /\ (hist.op = "update"
                 => PartitionFrom(rot.phase) # PartitionFrom(hist.pre.phase))]_vars

\* A forward update that directly follows a forward update, starts from
\* phase true, and changed the lattice as the rule on the odd-anchored
\* partition does and as the rule on the even-anchored one does not.
C12_Witness ==
    /\ hist.op = "update" /\ hist.stage = "fwd" /\ hist.fwd >= 2
    /\ ~rot.phase /\ hist.pre.phase
    /\ PartitionProcessed(hist.pre.cells, rot.cells, rot.width, rot.height, 1, FALSE)
    /\ ~PartitionProcessed(hist.pre.cells, rot.cells, rot.width, rot.height, 0, FALSE)

\* ---------------------------------------------------------------- C13
\* Lattice a is lattice b with the Critters transform applied to every block
\* of the partition at offset off, and to nothing else.
CrittersPass(b, a, w, h, off) ==
    /\ \A p \in Anchors(w, h, off) : CrittersBlock(b, a, w, h, p[1], p[2])
    /\ \A i \in (DOMAIN b) \ InBlocks(w, h, off) : a[i] = b[i]

\* The lattice a single-rotation pass over the partition at off makes of b.
RotationPass(b, w, h, off, rev) ==
    CHOOSE a \in [DOMAIN b -> BOOLEAN] : PartitionProcessed(b, a, w, h, off, rev)

\* A Critters update(): the pass over the even-anchored partition (phase A)
\* and then the one over the odd-anchored partition (phase B) when reverse
\* is unset, phase B and then phase A when it is set.
CrittersBothPhases ==
    /\ CrittersPass(hist.pre.cells, hist.mid.cells, crit.width, crit.height,
                    CritFirstOff)
    /\ CrittersPass(hist.mid.cells, crit.cells, crit.width, crit.height,
                    1 - CritFirstOff)

\* C13 as claimed: one update() of Critters and one update() of single
\* rotation each run phase A then phase B when reverse is unset, and phase B
\* then phase A when it is set.
C13_BothPhasesEveryStep ==
    hist.op = "update" =>
        IF IsCrit THEN CrittersBothPhases
        ELSE LET first == IF rot.reverse THEN 1 ELSE 0
                 mid == RotationPass(hist.pre.cells, rot.width, rot.height,
                                     first, rot.reverse)
             IN PartitionProcessed(mid, rot.cells, rot.width, rot.height,
                                   1 - first, rot.reverse)

\* C13 amended: one update() of Critters runs phase A then phase B when
\* reverse is unset and phase B then phase A when it is set; one update() of
\* single rotation runs one phase only, phase A when it starts from phase
\* false and phase B when it starts from phase true, whatever reverse is.
C13_BothPhasesCrittersOnePhaseRotation ==
    hist.op = "update" =>
        IF IsCrit THEN CrittersBothPhases
        ELSE PartitionProcessed(hist.pre.cells, rot.cells, rot.width, rot.height,
                                PartitionFrom(hist.pre.phase), rot.reverse)

\* A Critters update() with reverse set whose first pass changed the lattice
\* as phase B does and not as phase A does, and whose second pass changed it
\* as phase A does and not as phase B does.
C13_Witness ==
    /\ IsCrit /\ hist.op = "update" /\ crit.reverse
    /\ CrittersPass(hist.pre.cells, hist.mid.cells, crit.width, crit.height, 1)
    /\ ~CrittersPass(hist.pre.cells, hist.mid.cells, crit.width, crit.height, 0)
    /\ CrittersPass(hist.mid.cells, crit.cells, crit.width, crit.height, 0)
    /\ ~CrittersPass(hist.mid.cells, crit.cells, crit.width, crit.height, 1)

\* ---------------------------------------------------------------- C14
\* C14: at every in-bounds (x, y) of a lattice of any width and height from
\* 1 up, every index computed by count_tall_neibs, neibs and count_big_cell
\* lies in 0..width*height-1 and is the index of the cell at
\* ((x+dx) mod width, (y+dy) mod height).
C14_ToroidalClosure ==
    LET w == sand.width
        h == sand.height
        x == hist.x
        y == hist.y
    IN /\ hist.op # "new_empty" =>
             \A k \in DOMAIN hist.idx : hist.idx[k] \in 0..(w * h - 1)
       /\ hist.op = "count_tall_neibs" =>
             hist.idx = << Torus(w, h, x, y - 1), Torus(w, h, x - 1, y),
                           Torus(w, h, x + 1, y), Torus(w, h, x, y + 1) >>
       /\ hist.op = "neibs" =>
             hist.idx = << Torus(w, h, x - 1, y - 1), Torus(w, h, x, y - 1),
                           Torus(w, h, x + 1, y - 1) >>
       /\ hist.op = "count_big_cell" =>
             hist.idx = << Torus(w, h, x, y), Torus(w, h, x + 1, y),
                           Torus(w, h, x + 1, y + 1), Torus(w, h, x, y + 1) >>

\* ---------------------------------------------------------------- C15
\* C15: on a lattice of any width and height from 1 up, no update() fails
\* or indexes out of range, after any sequence of updates and edits.
C15_StepsAreTotal == ~panicked /\ hist.op # "panic"

\* ---------------------------------------------------------------- C16
\* C16: in every state reached by update, clear, randomize, toggle or
\* set_pile, and set_line calls, the current and the scratch buffer both
\* have exactly width*height cells, and width and height are those the
\* lattice had before the last call.
C16_BufferSizes ==
    IF hist.engine = "sand"
    THEN /\ DOMAIN sand.piles = 0..(sand.width * sand.height - 1)
         /\ DOMAIN sand.scratch_piles = 0..(sand.width * sand.height - 1)
         /\ sand.width = hist.width /\ sand.height = hist.height
    ELSE /\ DOMAIN elem.cells = 0..(elem.width * elem.height - 1)
         /\ DOMAIN elem.scratch_cells = 0..(elem.width * elem.height - 1)
         /\ elem.width = hist.width /\ elem.height = hist.height

\* A sandpile whose buffers were swapped by an update after a line was
\* drawn: the scratch buffer holds the drawn piles, the current one does not.
C16_Witness ==
    /\ hist.engine = "sand" /\ hist.op = "update" /\ steps >= 2
    /\ \E i \in DOMAIN sand.scratch_piles : sand.scratch_piles[i] > 63
    /\ sand.piles # sand.scratch_piles

\* ---------------------------------------------------------------- C17
\* a >= 2^32
AtLeastTwoTo32(a) == \E k \in 4..(UsizeBytes - 1) : a[k] # 0

\* Remainder of the long division of usize::MAX by n after the bytes above k.
RECURSIVE MaxDivRem(_, _)
MaxDivRem(n, k) ==
    IF k >= UsizeBytes THEN 0 ELSE (MaxDivRem(n, k + 1) * 256 + 255) % n

\* floor(usize::MAX / n), for 0 < n < 2^23.
MaxDiv(n) ==
    [k \in 0..(UsizeBytes - 1) |-> (MaxDivRem(n, k + 1) * 256 + 255) \div n]

GreaterThan(a, b) ==
    \E k \in DOMAIN a : a[k] > b[k] /\ \A j \in DOMAIN a : j > k => a[j] = b[j]

\* a * b exceeds usize::MAX, for a and b not zero of which one at most is
\* 2^32 or more, and then the other is below 2^23: b > floor(MAX / a).
ProductOverflows(a, b) ==
    IF AtLeastTwoTo32(a) /\ AtLeastTwoTo32(b) THEN TRUE
    ELSE IF AtLeastTwoTo32(b) THEN GreaterThan(b, MaxDiv(usize_value(a)))
    ELSE IF AtLeastTwoTo32(a) THEN GreaterThan(a, MaxDiv(usize_value(b)))
    ELSE FALSE

IsZero(a) == a = [k \in DOMAIN a |-> 0]

\* C17: new_empty makes no lattice when width is 0, height is 0 or
\* width*height does not fit the index type; otherwise it makes a lattice of
\* that width and height whose current and scratch buffers hold width*height
\* default cells (dead, or zero grains).
C17_Construction ==
    hist.op \in {"new_empty", "panic"} =>
        IF \/ IsZero(hist.width) \/ IsZero(hist.height)
           \/ ProductOverflows(hist.width, hist.height)
        THEN hist.op = "panic" /\ panicked
        ELSE LET w == usize_value(hist.width)
                 h == usize_value(hist.height)
                 all == 0..(w * h - 1)
             IN /\ hist.op = "new_empty" /\ ~panicked
                /\ hist.engine = "sand" =>
                      /\ sand.width = w /\ sand.height = h
                      /\ sand.piles = [i \in all |-> 0]
                      /\ sand.scratch_piles = [i \in all |-> 0]
                /\ hist.engine = "elem" =>
                      /\ elem.width = w /\ elem.height = h
                      /\ elem.cells = [i \in all |-> FALSE]
                      /\ elem.scratch_cells = [i \in all |-> FALSE]
                /\ hist.engine = "rot" =>
                      /\ rot.width = w /\ rot.height = h
                      /\ rot.cells = [i \in all |-> FALSE]

\* A call with width and height both positive whose product overflows: no
\* lattice is made.
C17_Witness ==
    /\ hist.op = "panic" /\ panicked
    /\ ~IsZero(hist.width) /\ ~IsZero(hist.height)
    /\ ~AtLeastTwoTo32(hist.width)

\* ---------------------------------------------------------------- C18
InBounds(w, h, x, y) == x >= 0 /\ x < w /\ y >= 0 /\ y < h

\* C18: grid_idx(x, y) is x + y*width when 0 <= x < width and
\* 0 <= y < height and None for every other coordinate; idx_grid gives
\* (x, y) back from the index; and the in-bounds coordinates are mapped one
\* to one onto 0..width*height-1.
C18_IndexMapping ==
    LET w == rot.width
        h == rot.height
    IN /\ hist.op = "grid_idx" =>
             IF InBounds(w, h, hist.x, hist.y)
             THEN hist.idx = <<hist.x + hist.y * w, hist.x, hist.y>>
             ELSE hist.idx = <<None>>
       /\ \A n \in 0..(w * h - 1) :
             Cardinality({p \in (0..(w - 1)) \X (0..(h - 1)) :
                             grid_idx(rot, p[1], p[2]) = n}) = 1
       /\ \A p \in (0..(w - 1)) \X (0..(h - 1)) :
             grid_idx(rot, p[1], p[2]) \in 0..(w * h - 1)

\* grid_idx at the last cell of a lattice that is not square, with idx_grid
\* giving the cell back.
C18_Witness ==
    /\ hist.op = "grid_idx"
    /\ rot.width >= 2 /\ rot.height >= 2 /\ rot.width # rot.height
    /\ hist.x = rot.width - 1 /\ hist.y = rot.height - 1
    /\ hist.idx = <<rot.width * rot.height - 1, hist.x, hist.y>>

\* ---------------------------------------------------------------- C19
\* The sum of the first n grain counts of p.
RECURSIVE TotalUpTo(_, _)
TotalUpTo(p, n) == IF n = 0 THEN 0 ELSE p[n - 1] + TotalUpTo(p, n - 1)

Total(p) == TotalUpTo(p, Cardinality(DOMAIN p))

\* C19: the sum of all grain counts after a sandpile update() is less than
\* or equal to the sum before it.
C19_TotalNeverGrows ==
    hist.op = "update" => Total(sand.piles) <= Total(hist.pre.piles)

\* An update in which a pile toppled onto its neighbours.
C19_Witness ==
    /\ hist.op = "update"
    /\ \E i \in DOMAIN sand.piles :
          /\ hist.pre.piles[i] >= TOPPLE_HEIGHT
          /\ sand.piles[i] < hist.pre.piles[i]
    /\ \E i \in DOMAIN sand.piles : sand.piles[i] > hist.pre.piles[i]
    /\ Total(sand.piles) > 0

\* ---------------------------------------------------------------- C20
\* n is a u32: not negative and at most 16 bits in its upper limb.
InU32(n) == n >= 0 /\ n \div 65536 <= 65535

C21_RandomizeFillsIffBelow ==
    hist.op = "randomize" =>
        \A i \in DOMAIN sand.piles :
            IF hist.args[i][1] < RANDOM_FILL
            THEN sand.piles[i] = hist.args[i][2] % 64 /\ sand.piles[i] \in 0..63
            ELSE sand.piles[i] = 0

\* ---------------------------------------------------------------- C22
\* The cells and the sizes of the lattice s of the engine e.
CellsOf(e, s) == IF e = "sand" THEN s.piles ELSE s.cells

\* The number of points of the line before its first point outside the
\* w x h lattice.
InPrefix(line, w, h) ==
    Cardinality({j \in 1..Len(line) :
        \A m \in 1..j : InBounds(w, h, line[m][1], line[m][2])})

\* The indices of the first n points of the line.
PrefixCells(line, n, w) == {line[j][1] + line[j][2] * w : j \in 1..n}

\* The value set_line is to leave in a cell it edits.
LineValue(e, alive) == IF e = "sand" THEN CLICK_HEIGHT ELSE alive

\* C22: set_line of the sandpile and of the single rotation automaton
\* walks a line from the start clamped to 0..width and 0..height to the
\* unclamped end, edits the points of the line up to its first point
\* outside the lattice, and changes nothing else.
C22_LinePrefix ==
    (hist.op = "set_line" /\ hist.engine \in {"sand", "rot"}) =>
        LET now == EditSelf
            pre == hist.pre
            line == hist.out
            w == pre.width
            h == pre.height
            x0 == hist.args[1]
            y0 == hist.args[2]
            E == PrefixCells(line, InPrefix(line, w, h), w)
        IN /\ line[1] = << IF x0 < 0 THEN 0 ELSE IF x0 < w THEN x0 ELSE w,
                           IF y0 < 0 THEN 0 ELSE IF y0 < h THEN y0 ELSE h >>
           /\ line[Len(line)] = <<hist.args[3], hist.args[4]>>
           /\ \A i \in DOMAIN CellsOf(hist.engine, pre) :
                 CellsOf(hist.engine, now)[i] =
                    IF i \in E THEN LineValue(hist.engine, hist.args[5])
                    ELSE CellsOf(hist.engine, pre)[i]
           /\ \A f \in DOMAIN pre \ {"piles", "cells"} : now[f] = pre[f]
           /\ DOMAIN now = DOMAIN pre

\* A set_line whose start was clamped, which edited two cells or more and
\* then left the lattice, beside a cell holding an earlier edit.
C22_Witness ==
    /\ hist.op = "set_line" /\ hist.engine \in {"sand", "rot"}
    /\ hist.args[1] < 0
    /\ InPrefix(hist.out, hist.pre.width, hist.pre.height) >= 2
    /\ InPrefix(hist.out, hist.pre.width, hist.pre.height) < Len(hist.out)
    /\ \E i \in DOMAIN CellsOf(hist.engine, hist.pre) :
          /\ i \notin PrefixCells(hist.out,
                          InPrefix(hist.out, hist.pre.width, hist.pre.height),
                          hist.pre.width)
          /\ IF hist.engine = "sand" THEN hist.pre.piles[i] > 0 ELSE hist.pre.cells[i]
          /\ CellsOf(hist.engine, EditSelf)[i] = CellsOf(hist.engine, hist.pre)[i]

\* ---------------------------------------------------------------- C23
\* The segment from (x0, y0) to (x1, y1) lies on one side of the w x h
\* lattice, so that none of its points is inside.
SegmentOutside(w, h, x0, y0, x1, y1) ==
    \/ x0 < 0 /\ x1 < 0
    \/ y0 < 0 /\ y1 < 0
    \/ x0 >= w /\ x1 >= w
    \/ y0 >= h /\ y1 >= h

\* C23: set_line with a segment whose points are all outside the lattice
\* leaves every cell unchanged.
C23_OutsideLineEditsNothing ==
    (/\ hist.op = "set_line" /\ hist.engine \in {"sand", "rot"}
     /\ SegmentOutside(hist.pre.width, hist.pre.height,
                       hist.args[1], hist.args[2], hist.args[3], hist.args[4]))
    => EditSelf = hist.pre

\* ---------------------------------------------------------------- C24
\* The value set_line of the engine e writes into a cell: set_line of the
\* elementary automaton calls set_alive() whatever alive is.
LineWrites_value(e, alive) ==
    IF e = "sand" THEN CLICK_HEIGHT ELSE IF e = "elem" THEN TRUE ELSE alive

\* C24: set_line(x, y, x, y, ..) with (x, y) inside the lattice edits the
\* cell (x, y) and no other cell.
C24_DegenerateLine ==
    (/\ hist.op = "set_line"
     /\ hist.args[1] = hist.args[3] /\ hist.args[2] = hist.args[4]
     /\ InBounds(hist.pre.width, hist.pre.height, hist.args[1], hist.args[2]))
    => LET at == hist.args[1] + hist.args[2] * hist.pre.width
       IN /\ hist.out = << <<hist.args[1], hist.args[2]>> >>
          /\ \A i \in DOMAIN CellsOf(hist.engine, hist.pre) :
                CellsOf(hist.engine, EditSelf)[i] =
                   IF i = at THEN LineWrites_value(hist.engine, hist.args[5])
                   ELSE CellsOf(hist.engine, hist.pre)[i]

\* A one-point set_line that changed its cell beside a cell holding an
\* earlier edit.
C24_Witness ==
    /\ hist.op = "set_line"
    /\ hist.args[1] = hist.args[3] /\ hist.args[2] = hist.args[4]
    /\ InBounds(hist.pre.width, hist.pre.height, hist.args[1], hist.args[2])
    /\ LET at == hist.args[1] + hist.args[2] * hist.pre.width
       IN /\ CellsOf(hist.engine, EditSelf)[at] # CellsOf(hist.engine, hist.pre)[at]
          /\ \E i \in DOMAIN CellsOf(hist.engine, hist.pre) \ {at} :
                IF hist.engine = "sand" THEN hist.pre.piles[i] > 0 ELSE hist.pre.cells[i]

\* ---------------------------------------------------------------- C25
\* C25: after set_line(x0, y0, x1, y1, desired_state) of a boolean
\* automaton every cell the line touched holds desired_state, for
\* desired_state true and for desired_state false.
C25_LineAppliesDesiredState ==
    (hist.op = "set_line" /\ hist.engine \in {"elem", "rot"}) =>
        \A i \in PrefixCells(hist.out,
                      InPrefix(hist.out, hist.pre.width, hist.pre.height),
                      hist.pre.width) :
            CellsOf(hist.engine, EditSelf)[i] = hist.args[5]

\* ---------------------------------------------------------------- C26
\* C26: toggle(x, y) and set_pile(x, y) outside the lattice leave the whole
\* lattice, phase, reverse and active row included, unchanged and do not
\* fail, and toggle returns false; toggle inside the lattice flips exactly
\* the cell (x, y) and returns its new state.
C26_PointEdits ==
    hist.op \in {"toggle", "set_pile"} =>
        LET x == hist.args[1]
            y == hist.args[2]
            w == hist.pre.width
            h == hist.pre.height
        IN /\ ~panicked
           /\ (x < 0 \/ y < 0 \/ x >= w \/ y >= h) =>
                 /\ EditSelf = hist.pre
                 /\ hist.op = "toggle" => hist.out = FALSE
           /\ (hist.op = "toggle" /\ x >= 0 /\ y >= 0 /\ x < w /\ y < h) =>
                 /\ \A i \in DOMAIN hist.pre.cells :
                       EditSelf.cells[i] = IF i = x + y * w THEN ~hist.pre.cells[i]
                                           ELSE hist.pre.cells[i]
                 /\ \A f \in DOMAIN hist.pre \ {"cells"} : EditSelf[f] = hist.pre[f]
                 /\ DOMAIN EditSelf = DOMAIN hist.pre
                 /\ hist.out = EditSelf.cells[x + y * w]

\* A toggle of a live cell of the single rotation automaton, which returned
\* false, beside another live cell.
C26_Witness ==
    /\ hist.op = "toggle" /\ hist.engine = "rot"
    /\ grid_idx(hist.pre, hist.args[1], hist.args[2]) # None
    /\ hist.pre.cells[grid_idx(hist.pre, hist.args[1], hist.args[2])]
    /\ ~hist.out
    /\ \E i \in DOMAIN rot.cells : rot.cells[i]

\* ---------------------------------------------------------------- C27
\* C27: center_pile() on a sandpile lattice of any width and height does
\* not fail, sets the pile at (width/2, height/2) to the centre grain count
\* and changes no other pile.
C27_CenterPile ==
    /\ hist.op # "panic"
    /\ hist.op = "center_pile" =>
          \A i \in DOMAIN sand.piles :
              sand.piles[i] =
                 IF i = (sand.width \div 2) + (sand.height \div 2) * sand.width
                 THEN CENTER_HEIGHT ELSE hist.pre.piles[i]

\* ---------------------------------------------------------------- C28
\* C28: in every Margolus variant the four positions count_big_cell returns
\* for the block anchored at (x, y) are, in this order, those of (x, y),
\* (x+1, y), (x+1, y+1) and (x, y+1) on the torus.
C28_ClockwiseBlock ==
    hist.op \in {"count_big_cell", "multicolor::count_big_cell",
                 "critters::count_big_cell"} =>
        hist.idx = << Torus(rot.width, rot.height, hist.x, hist.y),
                      Torus(rot.width, rot.height, hist.x + 1, hist.y),
                      Torus(rot.width, rot.height, hist.x + 1, hist.y + 1),
                      Torus(rot.width, rot.height, hist.x, hist.y + 1) >>

\* ---------------------------------------------------------------- C29
\* The writes of the last draw() whose offset is that of cell i.
WritesAt(i) == {k \in DOMAIN hist.out : hist.out[k].offset = 4 * i}

\* C29: draw(screen) leaves the lattice unchanged and writes, once for
\* every cell, the four bytes at offset 4*(x + y*width), whose colour
\* depends on the state of that cell only: ff ff ff ff for a live and
\* 00 00 00 ff for a dead cell, and for a pile one colour when it holds
\* more than 4 grains, another when it holds 4, and a colour of its own
\* count when it holds fewer.
C29_DrawProjects ==
    hist.op = "draw" =>
        /\ EditSelf = hist.pre
        /\ Len(hist.out) = hist.pre.width * hist.pre.height
        /\ \A x \in 0..(hist.pre.width - 1), y \in 0..(hist.pre.height - 1) :
              LET i == x + y * hist.pre.width
                  c == CellsOf(hist.engine, hist.pre)[i]
              IN /\ Cardinality(WritesAt(i)) = 1
                 /\ \A k \in WritesAt(i) :
                       hist.out[k].bytes =
                          IF hist.engine # "sand"
                          THEN IF c THEN <<255, 255, 255, 255>> ELSE <<0, 0, 0, 255>>
                          ELSE IF c > 4 THEN <<255, 255, 0, 255>>
                          ELSE IF c = 4 THEN <<0, 221, 221, 255>>
                          ELSE <<50 * c, 0, 80 * c, 255>>

\* A draw() of a sandpile with a pile above, a pile at and a pile below
\* the toppling height.
C29_Witness ==
    /\ hist.op = "draw" /\ hist.engine = "sand"
    /\ \E i, j, k \in DOMAIN sand.piles :
          sand.piles[i] > 4 /\ sand.piles[j] = 4 /\ sand.piles[k] < 4

\* ---------------------------------------------------------------- C30
\* C30: with the rule table of rule code 0 the next state of a cell is
\* false for every neighbour count 0..8 and either current state, and one
\* step leaves every cell of the lattice dead.
C30_AllDeadRule ==
    /\ \A n \in 0..8, alive \in BOOLEAN :
          ~Cell_update_neibs(alive, n, RuleTable(0))
    /\ (hist.op = "update" /\ \A n \in 0..8 : ~crit.rule[n]) =>
          \A i \in DOMAIN crit.cells : ~crit.cells[i]

\* One step with rule code 0 on the 3 x 3 lattice whose only live cell
\* was (1, 1).
C30_Witness ==
    /\ hist.op = "update" /\ \A n \in 0..8 : ~crit.rule[n]
    /\ crit.width = 3 /\ crit.height = 3
    /\ \A i \in DOMAIN crit.cells : hist.pre.cells[i] <=> (i = 4)
    /\ \A i \in DOMAIN crit.cells : ~crit.cells[i]

C32_RandomizeFirstRowOnly ==
    [][(hist'.engine = "elem" /\ hist'.op = "randomize") =>
          \A i \in DOMAIN elem.cells :
             i >= elem.width => elem'.cells[i] = elem.cells[i]]_vars

\* ---------------------------------------------------------------- C33
\* C33: after clear() the elementary automaton is in the state of a freshly
\* built lattice of the same size: every cell of the current and of the
\* scratch buffer is dead and active_line is 1.
C33_ClearIsReset ==
    (hist.op = "clear") =>
        /\ elem.width = hist.pre.width /\ elem.height = hist.pre.height
        /\ elem = Rule110_new_empty(hist.pre.width, hist.pre.height)
        /\ \A i \in DOMAIN elem.cells : ~elem.cells[i] /\ ~elem.scratch_cells[i]
        /\ elem.active_line = 1

\* clear() of a frozen lattice with live cells in both buffers.
C33_Witness ==
    /\ hist.op = "clear" /\ hist.pre.active_line = 0
    /\ \E i, j \in DOMAIN hist.pre.cells :
          hist.pre.cells[i] /\ hist.pre.scratch_cells[j]
    /\ elem.active_line = 1

\* ---------------------------------------------------------------- C34
\* C34: on a lattice with width and height of at least 2 the sum of all
\* grain counts after update() equals the sum before it, also when a side
\* is 2 and two of the four neighbours of a cell are the same cell.
C34_GrainsConserved ==
    (hist.op = "update" /\ sand.width >= 2 /\ sand.height >= 2) =>
        Total(sand.piles) = Total(hist.pre.piles)

\* An update on a lattice two cells wide in which a pile toppled and its
\* one horizontal neighbour received two of the four grains.
C34_Witness ==
    /\ hist.op = "update" /\ sand.width = 2 /\ sand.height >= 2
    /\ \E i, j \in DOMAIN sand.piles :
          /\ hist.pre.piles[i] >= TOPPLE_HEIGHT
          /\ \A k \in DOMAIN sand.piles :
                k # i => hist.pre.piles[k] < TOPPLE_HEIGHT
          /\ sand.piles[i] = hist.pre.piles[i] - TOPPLE_HEIGHT
          /\ j \div 2 = i \div 2 /\ j # i
          /\ sand.piles[j] = hist.pre.piles[j] + 2

\* ---------------------------------------------------------------- C35
MaxOf(a, b) == IF a >= b THEN a ELSE b

\* The largest grain count of the lattice.
Tallest(p) == CHOOSE g \in {p[i] : i \in DOMAIN p} : \A i \in DOMAIN p : p[i] <= g

\* C35: after update() the grain count of every cell is at most the larger
\* of its count before the update and 7, so the addition never reaches the
\* u32 limit and the largest count of the lattice does not grow once it is
\* at least 7.
C35_NeverSaturates ==
    (hist.op = "update") =>
        /\ \A i \in DOMAIN sand.piles :
              sand.piles[i] <= MaxOf(hist.pre.piles[i], 7)
        /\ Tallest(hist.pre.piles) >= 7 =>
              Tallest(sand.piles) <= Tallest(hist.pre.piles)

\* An update in which a pile below the toppling height received grains
\* that took it above that height, beside a toppling pile taller than 7.
C35_Witness ==
    /\ hist.op = "update"
    /\ \E i \in DOMAIN sand.piles :
          /\ hist.pre.piles[i] < TOPPLE_HEIGHT
          /\ sand.piles[i] > TOPPLE_HEIGHT
          /\ sand.piles[i] > hist.pre.piles[i] + 1
    /\ Tallest(hist.pre.piles) > 7
    /\ Tallest(sand.piles) = Tallest(hist.pre.piles) - TOPPLE_HEIGHT

\* ---------------------------------------------------------------- C36
\* C36: one update() of single rotation, forward or reverse, on a lattice
\* of any size leaves the number of live cells unchanged.
C36_RotationConservesLive ==
    (hist.op = "update") => Live(rot.cells) = Live(hist.pre.cells)

\* A reverse update that moved a cell on a lattice of odd side holding
\* more than one live cell.
C36_Witness ==
    /\ hist.op = "update" /\ rot.reverse
    /\ rot.width = 3
    /\ rot.cells # hist.pre.cells
    /\ Live(rot.cells) >= 2

\* ---------------------------------------------------------------- C37
\* The cells of the k-th block of the pass at offset off, as count_big_cell
\* of single_rotation.rs and of multicolor.rs list them.
PassBlock(self, k, off) ==
    LET a == BlockAnchor(self, k, off)
        p == MarGrid_count_big_cell(self, a[1], a[2]).cell_pos
    IN {p[1], p[2], p[3], p[4]}

CrittersPassBlock(self, k, off) ==
    LET a == BlockAnchor(self, k, off)
        p == Critters_cell_pos(self, a[1], a[2])
    IN {p[1], p[2], p[3], p[4]}

\* The blocks of a pass from the last to the first.
RECURSIVE PassBackwards(_, _, _)
PassBackwards(self, k, off) ==
    IF k = 0 THEN self
    ELSE LET a == BlockAnchor(self, k - 1, off)
         IN PassBackwards(MarGrid_update_block(self, a[1], a[2]), k - 1, off)

\* C37: the blocks of one pass (update_grid_1 or update_grid_2) have four
\* cells each and no cell in common, for every width and height, so a pass
\* gives the same lattice in whatever order its blocks are visited; with
\* even width and height the blocks of a pass cover the lattice.  The
\* blocks depend on the width and the height alone, which never change:
\* they are looked at on the fresh lattice of every size.
C37_BlocksDisjoint ==
    /\ (hist.op = "new_empty") => \A off \in {0, 1} :
          LET ks == 0..(BlockCount(rot) - 1)
          IN /\ \A k \in ks :
                   /\ Cardinality(PassBlock(rot, k, off)) = 4
                   /\ PassBlock(rot, k, off) \subseteq DOMAIN rot.cells
                   /\ CrittersPassBlock(rot, k, off) = PassBlock(rot, k, off)
             /\ \A k1, k2 \in ks :
                   k1 # k2 => PassBlock(rot, k1, off) \cap PassBlock(rot, k2, off) = {}
             /\ (rot.width % 2 = 0 /\ rot.height % 2 = 0) =>
                   UNION {PassBlock(rot, k, off) : k \in ks} = DOMAIN rot.cells
    /\ (hist.op = "update") =>
          rot = PassBackwards([hist.pre EXCEPT !.phase = ~hist.pre.phase],
                              BlockCount(hist.pre), PartitionFrom(hist.pre.phase))

\* A pass over the two blocks of a 4 x 2 lattice, shifted by one cell, that
\* rotated both of them.
C37_Witness ==
    /\ hist.op = "update" /\ hist.pre.phase
    /\ rot.width = 4 /\ rot.height = 2
    /\ \A k \in {0, 1} :
          \E i \in PassBlock(rot, k, 1) : rot.cells[i] # hist.pre.cells[i]

\* ---------------------------------------------------------------- C38
\* C38: clear(), randomize(), toggle(), set_line() and draw() of single
\* rotation leave phase and reverse unchanged; update() changes phase and
\* leaves reverse unchanged; reverse() is the only operation that changes
\* the reverse flag.
C38_FlagsFrame ==
    /\ hist.op \in {"clear", "randomize", "toggle", "set_line", "draw"} =>
          rot.phase = hist.phase /\ rot.reverse = hist.reverse
    /\ hist.op = "update" =>
          rot.phase # hist.phase /\ rot.reverse = hist.reverse
    /\ hist.op = "reverse" => rot.reverse # hist.reverse
    /\ rot.reverse # hist.reverse => hist.op = "reverse"

\* set_line() that changed a cell of a lattice whose phase and reverse
\* flags were both set.
C38_Witness ==
    /\ hist.op = "set_line" /\ hist.changed
    /\ hist.phase /\ hist.reverse
    /\ rot.phase /\ rot.reverse

\* ---------------------------------------------------------------- C39
\* C39: on a lattice of even width and height a single pass of Critters
\* (update_grid_1 or update_grid_2) turns T live cells into
\* width*height - T live cells, and the two passes of update() together
\* give T live cells again.
C39_HalfStepComplements ==
    (hist.op = "update" /\ crit.width % 2 = 0 /\ crit.height % 2 = 0) =>
        /\ Live(hist.mid.cells) = crit.width * crit.height - Live(hist.pre.cells)
        /\ Live(crit.cells) = crit.width * crit.height - Live(hist.mid.cells)
        /\ Live(crit.cells) = Live(hist.pre.cells)

\* An update of a 4 x 2 lattice whose first pass met a block of two live
\* cells and whose second pass met a block of three.
C39_Witness ==
    /\ hist.op = "update" /\ crit.width = 4 /\ crit.height = 2
    /\ \E a \in Anchors(4, 2, CritFirstOff) :
          BlockLive(hist.pre.cells, 4, 2, a[1], a[2]) = 2
    /\ \E a \in Anchors(4, 2, 1 - CritFirstOff) :
          BlockLive(hist.mid.cells, 4, 2, a[1], a[2]) = 3
    /\ Live(hist.pre.cells) = 2 /\ Live(hist.mid.cells) = 6

====
